---- MODULE Spec2Model ----
(***************************************************************************)
(* Model of pade_prediction (src/motor_calculo_teu.py, lines 60-115), the  *)
(* Pade-Borel [2/2] estimator of the next coefficient of a power series.   *)
(*                                                                         *)
(* Arithmetic.  The program computes in IEEE doubles.  The model computes  *)
(* in exact rational arithmetic: a value is a pair <<n, d>> in lowest      *)
(* terms with d > 0, and the float not-a-number is the pair <<0, 0>>.      *)
(* Rounding is therefore not modelled; every statement below is about the  *)
(* exact values the floating-point computation approximates.               *)
(*                                                                         *)
(* Control.  Each caller of pade_prediction owns the locals of its call    *)
(* (b, A_mat, Y_vec, q, b6, c6_pred) and a position pc in the function,    *)
(* named after the source line it is about to execute.                     *)
(***************************************************************************)
EXTENDS Integers, Sequences, FiniteSets, TLC

\* ------------------------------------------------------------------------
\* Bounds of the model
\* ------------------------------------------------------------------------
\* Largest absolute value of an integer coefficient of a drawn input series.
MaxAbs == 1
\* Longest drawn input series (the function is written for 5 coefficients).
MaxLen == 6
\* Largest absolute value of q1, q2, b1, b2, b3 of a drawn rational source.
MaxGen == 2

\* The callers of pade_prediction.  "c1" is the script's scenario loop
\* (line 170); "c2" is a second caller, idle in the sequential specification.
Callers == {"c1", "c2"}

\* ------------------------------------------------------------------------
\* Exact rational arithmetic (the values of Python floats)
\* ------------------------------------------------------------------------
Abs(x) == IF x < 0 THEN -x ELSE x

RECURSIVE GCD(_, _)
GCD(x, y) == IF y = 0 THEN x ELSE GCD(y, x % y)

\* The rational n/d (d # 0) in lowest terms with a positive denominator.
Rat(n, d) ==
    LET g == GCD(Abs(n), Abs(d))
        s == IF d < 0 THEN -1 ELSE 1
    IN  <<(s * n) \div g, (s * d) \div g>>

\* float('nan'), numpy.nan
NaN == <<0, 0>>
IsNaN(x) == Len(x) = 2 /\ x[2] = 0

\* A local variable that has not been assigned.
Unset == <<>>

\* ------------------------------------------------------------------------
\* Exact arithmetic on values too large for one machine integer
\* ------------------------------------------------------------------------
\* A natural number is a sequence of limbs, least significant first, without
\* a most significant zero limb; 0 is the empty sequence.
LimbBase == 1000

RECURSIVE Limbs(_)
Limbs(n) == IF n = 0 THEN <<>> ELSE <<n % LimbBase>> \o Limbs(n \div LimbBase)

\* The limb of weight LimbBase^(i-1), 0 beyond the most significant one.
Digit(a, i) == IF i >= 1 /\ i <= Len(a) THEN a[i] ELSE 0

\* Drops the most significant zero limbs.
Strip(a) ==
    LET top == CHOOSE i \in 0..Len(a) :
                   /\ i = 0 \/ a[i] # 0
                   /\ \A j \in (i + 1)..Len(a) : a[j] = 0
    IN  SubSeq(a, 1, top)

\* -1, 0 or 1 as a < c, a = c or a > c.
NCmp(a, c) ==
    IF Len(a) < Len(c) THEN -1
    ELSE IF Len(a) > Len(c) THEN 1
    ELSE IF a = c THEN 0
    ELSE LET top == CHOOSE i \in 1..Len(a) :
                        /\ a[i] # c[i]
                        /\ \A j \in (i + 1)..Len(a) : a[j] = c[j]
         IN  IF a[top] < c[top] THEN -1 ELSE 1

\* The limbs of columns lo..hi of a sequence of column sums and the carry out
\* of column hi, given the carry into column lo (floored, so a negative
\* column borrows).
RECURSIVE NormRange(_, _, _, _)
NormRange(col, lo, hi, cin) ==
    IF lo = hi
    THEN <<<<(col[lo] + cin) % LimbBase>>, (col[lo] + cin) \div LimbBase>>
    ELSE LET m == (lo + hi) \div 2
             low == NormRange(col, lo, m, cin)
             high == NormRange(col, m + 1, hi, low[2])
         IN  <<low[1] \o high[1], high[2]>>

\* The limbs of a natural number given by its column sums.
Normalise(col) ==
    IF col = <<>> THEN <<>>
    ELSE LET r == NormRange(col, 1, Len(col), 0)
         IN  Strip(r[1] \o <<r[2] % LimbBase, r[2] \div LimbBase>>)

\* a + sgn * c for sgn in {-1, 1}, with a >= c when sgn = -1.
NComb(a, c, sgn) ==
    Normalise([i \in 1..(IF Len(a) > Len(c) THEN Len(a) ELSE Len(c)) |->
                  Digit(a, i) + sgn * Digit(c, i)] \o <<>>)

\* The sum of a[i] * c[k + 1 - i] for i in lo..hi.
RECURSIVE ColSum(_, _, _, _, _)
ColSum(a, c, k, lo, hi) ==
    IF lo > hi THEN 0
    ELSE IF lo = hi THEN a[lo] * c[k + 1 - lo]
    ELSE LET m == (lo + hi) \div 2
         IN  ColSum(a, c, k, lo, m) + ColSum(a, c, k, m + 1, hi)

\* a * c by columns
NMul(a, c) ==
    IF a = <<>> \/ c = <<>> THEN <<>>
    ELSE Normalise([k \in 1..(Len(a) + Len(c) - 1) |->
                       ColSum(a, c, k,
                              IF k + 1 - Len(c) > 1 THEN k + 1 - Len(c) ELSE 1,
                              IF k < Len(a) THEN k ELSE Len(a))] \o <<>>)

\* The number of least significant zero limbs of a # 0.
LowZeros(a) ==
    (CHOOSE i \in 1..Len(a) : a[i] # 0 /\ \A j \in 1..(i - 1) : a[j] = 0) - 1

\* A large rational is a triple <<sign, numerator, denominator>> of a sign in
\* {-1, 0, 1} and two naturals; it is not kept in lowest terms, so two large
\* rationals are compared with REq and RLess, not with =.
IsBig(x) == Len(x) = 3
BigZero == <<0, <<>>, <<1>>>>
Big(n, d) ==
    IF n = 0 THEN BigZero
    ELSE <<IF n < 0 THEN -1 ELSE 1, Limbs(Abs(n)), Limbs(d)>>
ToBig(x) == IF IsBig(x) THEN x ELSE Big(x[1], x[2])
BigNeg(x) == <<-x[1], x[2], x[3]>>
\* Cancels the power of LimbBase common to numerator and denominator.
BigReduce(x) ==
    IF x[1] = 0 THEN BigZero
    ELSE LET zn == LowZeros(x[2])
             zd == LowZeros(x[3])
             z  == IF zn < zd THEN zn ELSE zd
         IN  <<x[1], SubSeq(x[2], z + 1, Len(x[2])), SubSeq(x[3], z + 1, Len(x[3]))>>
BigMul(x, y) ==
    IF x[1] * y[1] = 0 THEN BigZero
    ELSE BigReduce(<<x[1] * y[1], NMul(x[2], y[2]), NMul(x[3], y[3])>>)
\* 1 / x for x # 0
BigInv(x) == <<x[1], x[3], x[2]>>
BigAdd(x, y) ==
    IF x[1] = 0 THEN y
    ELSE IF y[1] = 0 THEN x
    ELSE LET xn == NMul(x[2], y[3])
             yn == NMul(y[2], x[3])
             o  == IF x[1] = y[1] THEN 1 ELSE NCmp(xn, yn)
         IN  IF o = 0 THEN BigZero
             ELSE BigReduce(<<IF o = 1 THEN x[1] ELSE y[1],
                              NComb(IF o = 1 THEN xn ELSE yn,
                                    IF o = 1 THEN yn ELSE xn,
                                    x[1] * y[1]),
                              NMul(x[3], y[3])>>)

\* The decimal n * 10^-k (n an integer literal of the source, 0 <= k <= 9).
RECURSIVE Pow10(_)
Pow10(k) == IF k = 0 THEN 1 ELSE 10 * Pow10(k - 1)
Dec(n, k) == Big(n, Pow10(k))

\* ------------------------------------------------------------------------
\* The arithmetic of the program: on pairs when both operands are pairs, on
\* large rationals otherwise
\* ------------------------------------------------------------------------
FromInt(n) == <<n, 1>>
Zero == FromInt(0)
RNeg(x) == IF IsBig(x) THEN BigNeg(x) ELSE <<-x[1], x[2]>>
\* x + y over the least common denominator (keeps the integers small).
RAdd(x, y) ==
    IF IsBig(x) \/ IsBig(y) THEN BigAdd(ToBig(x), ToBig(y))
    ELSE LET g == GCD(x[2], y[2])
         IN  Rat(x[1] * (y[2] \div g) + y[1] * (x[2] \div g), (x[2] \div g) * y[2])
RSub(x, y) == RAdd(x, RNeg(y))
\* x * y, cancelling across the fractions before multiplying.
RMul(x, y) ==
    IF IsBig(x) \/ IsBig(y) THEN BigMul(ToBig(x), ToBig(y))
    ELSE LET g1 == GCD(Abs(x[1]), y[2])
             g2 == GCD(Abs(y[1]), x[2])
         IN  <<(x[1] \div g1) * (y[1] \div g2), (x[2] \div g2) * (y[2] \div g1)>>
\* x / y for y # 0
RDiv(x, y) == RMul(x, IF IsBig(y) THEN BigInv(y) ELSE Rat(y[2], y[1]))
RAbs(x) == IF IsBig(x) THEN <<Abs(x[1]), x[2], x[3]>> ELSE <<Abs(x[1]), x[2]>>
\* x < y, by the sign of x - y
RLess(x, y) == RSub(x, y)[1] < 0
IsZero(x) == x[1] = 0
\* x = y as numbers
REq(x, y) == IF IsBig(x) \/ IsBig(y) THEN RSub(x, y)[1] = 0 ELSE x = y

\* math.factorial
RECURSIVE factorial(_)
factorial(n) == IF n <= 1 THEN 1 ELSE n * factorial(n - 1)

\* ------------------------------------------------------------------------
\* The computations of pade_prediction, line by line
\* ------------------------------------------------------------------------
\* Mutant of borel: n counted from 0 as enumerate does (divisor (n-1)!).
borel_from_zero(c_val, n) == RDiv(c_val, FromInt(factorial(n - 1)))

\* Mutant of borel: the coefficient taken without its sign.
borel_abs(c_val, n) == RDiv(RAbs(c_val), FromInt(factorial(n)))

\* Line 77: c_val / math.factorial(n), the Borel coefficient b_n of c_n.
borel(c_val, n) == RDiv(c_val, FromInt(factorial(n)))

\* Mutant of build_A_mat: a ridge term added to the diagonal to keep the
\* system solvable.
build_A_mat_ridge(bb) ==
    <<<<RAdd(bb[3], FromInt(1)), bb[2]>>, <<bb[4], RAdd(bb[3], FromInt(1))>>>>

\* Lines 89-90: A_mat = [[b[2], b[1]], [b[3], b[2]]] (Python counts from 0,
\* the sequences of the model from 1: Python's b[2] is b_3 = bb[3]).
\* Mutant of build_A_mat: the indices of line 89 one too low.
build_A_mat_from_first(bb) == <<<<bb[2], bb[1]>>, <<bb[3], bb[2]>>>>

\* Mutant of build_A_mat: the matrix transposed.
build_A_mat_transposed(bb) == <<<<bb[3], bb[4]>>, <<bb[2], bb[3]>>>>

build_A_mat(bb) == <<<<bb[3], bb[2]>>, <<bb[4], bb[3]>>>>

\* Mutant of build_Y_vec: the last two Borel coefficients, b[-2] and b[-1].
build_Y_vec_from_last(bb) == <<RNeg(bb[Len(bb) - 1]), RNeg(bb[Len(bb)])>>

\* Mutant of build_Y_vec: the right-hand side without the minus signs.
build_Y_vec_unnegated(bb) == <<bb[4], bb[5]>>

\* Line 91: Y_vec = [-b[3], -b[4]]
build_Y_vec(bb) == <<RNeg(bb[4]), RNeg(bb[5])>>

\* Mutant of linalg_solve: elimination without the row exchange, which gives
\* up when the leading entry is zero.
linalg_solve_no_pivot(A, Y) ==
    IF IsZero(A[1][1])
    THEN [singular |-> TRUE, x |-> Unset]
    ELSE LET l21 == RDiv(A[2][1], A[1][1])
             u22 == RSub(A[2][2], RMul(l21, A[1][2]))
             z2  == RSub(Y[2], RMul(l21, Y[1]))
         IN  IF IsZero(u22)
             THEN [singular |-> TRUE, x |-> Unset]
             ELSE LET x2 == RDiv(z2, u22)
                      x1 == RDiv(RSub(Y[1], RMul(A[1][2], x2)), A[1][1])
                  IN  [singular |-> FALSE, x |-> <<x1, x2>>]

\* Line 94: numpy.linalg.solve on a 2x2 system (LAPACK gesv): LU
\* factorisation with partial pivoting, then forward and back substitution.
\* A pivot that is exactly zero makes numpy raise LinAlgError.
linalg_solve(A, Y) ==
    LET swap == RLess(RAbs(A[1][1]), RAbs(A[2][1]))
        r1   == IF swap THEN A[2] ELSE A[1]
        r2   == IF swap THEN A[1] ELSE A[2]
        y1   == IF swap THEN Y[2] ELSE Y[1]
        y2   == IF swap THEN Y[1] ELSE Y[2]
    IN  IF IsZero(r1[1])
        THEN [singular |-> TRUE, x |-> Unset]
        ELSE LET l21 == RDiv(r2[1], r1[1])
                 u22 == RSub(r2[2], RMul(l21, r1[2]))
                 z2  == RSub(y2, RMul(l21, y1))
             IN  IF IsZero(u22)
                 THEN [singular |-> TRUE, x |-> Unset]
                 ELSE LET x2 == RDiv(z2, u22)
                          x1 == RDiv(RSub(y1, RMul(r1[2], x2)), r1[1])
                      IN  [singular |-> FALSE, x |-> <<x1, x2>>]

\* Mutant of extrapolate: the Python indices 4 and 3 read as b_4 and b_3.
extrapolate_shifted_index(bb, qq) ==
    RNeg(RAdd(RMul(bb[4], qq[1]), RMul(bb[3], qq[2])))

\* Mutant of extrapolate: the recurrence extended past the last element of b
\* (b[-1] and b[-2]) instead of past the fifth.
extrapolate_from_last(bb, qq) ==
    RNeg(RAdd(RMul(bb[Len(bb)], qq[1]), RMul(bb[Len(bb) - 1], qq[2])))

\* Line 108: b6 = - (b[4]*q1 + b[3]*q2)
extrapolate(bb, qq) == RNeg(RAdd(RMul(bb[5], qq[1]), RMul(bb[4], qq[2])))

\* Mutant of inverse_borel: the caller's sign flip folded into the estimator.
inverse_borel_negated(x) == RNeg(RMul(x, FromInt(factorial(6))))

\* Mutant of inverse_borel: the index 6 used in place of its factorial.
inverse_borel_no_factorial(x) == RMul(x, FromInt(6))

\* Line 111: c6_pred = b6 * math.factorial(6)
inverse_borel(x) == RMul(x, FromInt(factorial(6)))

\* What a call hands to its caller: a returned float (a number or NaN) or a
\* raised exception.
Returned(x) == [kind |-> "return", value |-> x, error |-> ""]
Raised(e)   == [kind |-> "raise", value |-> Unset, error |-> e]
NoOutcome   == [kind |-> "none", value |-> Unset, error |-> ""]

\* Lines 89-90: A_mat reads b[2], b[1], b[3]; the list raises IndexError when
\* it has fewer than 4 elements.  The statement is outside the try block, so
\* the exception leaves the function.
L89_index_error(bb) == Len(bb) < 4

\* Line 91: Y_vec reads b[3], b[4]; IndexError on fewer than 5 elements, also
\* outside the try block.
L91_index_error(bb) == Len(bb) < 5

\* Lines 96-115 for the Borel list bb and the result r of the solve of line 94.
pade_after_solve(bb, r) ==
    IF r.singular
    THEN [outcome |-> Returned(NaN), q |-> Unset]
    ELSE [outcome |-> Returned(inverse_borel(extrapolate(bb, r.x))),
          q       |-> r.x]

\* Lines 86-115 for the Borel list bb of lines 74-77.
pade_after_borel(bb) ==
    IF L89_index_error(bb) \/ L91_index_error(bb)
    THEN [outcome |-> Raised("IndexError"), q |-> Unset]
    ELSE pade_after_solve(bb, linalg_solve(build_A_mat(bb), build_Y_vec(bb)))

\* Lines 60-115 as a function of the argument: the outcome of the call and
\* the denominator coefficients it solved for (Unset when it solved none).
pade_prediction(c) ==
    pade_after_borel([n \in 1..Len(c) |-> borel(c[n], n)])

\* ------------------------------------------------------------------------
\* State
\* ------------------------------------------------------------------------
VARIABLES
    pc,           \* pc[p]: the line caller p's call is about to execute
    coeffs_list,  \* coeffs_list[p]: the argument of the call
    b,            \* b[p]: the list of Borel coefficients built so far
    A_mat,        \* A_mat[p]: the 2x2 matrix of line 89
    Y_vec,        \* Y_vec[p]: the right-hand side of line 91
    q,            \* q[p]: <<q1, q2>> of line 94
    b6,           \* b6[p]: line 108
    c6_pred,      \* c6_pred[p]: line 111
    outcome,      \* outcome[p]: what the call handed to its caller
    analytic_c6,  \* analytic_c6[p]: the true c6 of the rational function the
                  \* input was generated from (Unset for other inputs)
    TARGETS_BASE, \* the module table of lines 27-32
    SCENARIOS,    \* the module table of lines 35-42
    history,      \* the calls a caller has completed, oldest first: the
                  \* argument and the outcome of each
    audit_pc,     \* the line the scenario audit (lines 155-201) is about to execute
    scen,         \* the number of items of SCENARIOS the loop has taken
    mu,           \* line 159
    mu_dark,      \* line 166
    c6_pade,      \* line 170
    audit_data,   \* the rows appended so far (lines 188-201)
    c6_teu,       \* line 162
    c7_teu,       \* line 163
    divergence,   \* line 173
    mu_h,         \* line 239
    c5_hero,      \* line 242
    c6_hero,      \* line 243
    c7_hero,      \* line 244
    gauge,        \* teu_unified_gauge_mass.py: the locals of
                  \* simulate_physical_fractal_gauge and its position
    vacuum,       \* teu_photon_mass_solver.py: the locals of
                  \* simulate_fractal_vacuum_propagation and its position
    vegas,        \* teu_vegas_ab_initio_emergence.py: vegas[r] holds the locals
                  \* of run r of run_teu_stochastic_integration and its position
    mercury       \* mercury_precession_teu.py: mercury[r] holds the locals of
                  \* run r of stress_test_mercury and its position

\* The state a call of pade_prediction has no statement about.
scripts == <<gauge, vacuum, vegas, mercury>>
predictions == <<c6_teu, c7_teu, divergence, mu_h, c5_hero, c6_hero, c7_hero>>
elsewhere ==
    <<history, audit_pc, scen, mu, mu_dark, c6_pade, audit_data, predictions, scripts>>

vars == <<pc, coeffs_list, b, A_mat, Y_vec, q, b6, c6_pred, outcome, analytic_c6,
          TARGETS_BASE, SCENARIOS, elsewhere>>

\* ------------------------------------------------------------------------
\* The module tables
\* ------------------------------------------------------------------------
\* Lines 27-32: the magnitudes of the known coefficients, keyed 1..4.
TargetsBaseTable ==
    <<Dec(500000000, 9), Dec(328478965, 9), Dec(1181241456, 9), Dec(1912245764, 9)>>

\* Lines 35-42: the candidate values of |C5|, as the (name, value) items of
\* the dict in insertion order.
ScenariosTable ==
    << <<"Kinoshita 2012",  Dec(9160, 3)>>,
       <<"Aoyama 2019",     Dec(7668, 3)>>,
       <<"Aoyama 2025",     Dec(6800, 3)>>,
       <<"Volkov 2024",     Dec(6828, 3)>>,
       <<"Volkov (Old)",    Dec(5891, 3)>>,
       <<"TEU (Intuition)", Dec(6602, 3)>> >>

\* SCENARIOS[name] for a name of the table
Lookup(table, name) ==
    table[CHOOSE i \in 1..Len(table) : table[i][1] = name][2]

\* ------------------------------------------------------------------------
\* Inputs
\* ------------------------------------------------------------------------
CoefVals == {FromInt(v) : v \in (-MaxAbs)..MaxAbs}

\* Every series of 0..MaxLen coefficients over CoefVals.
PlainInputs == UNION {[1..n -> CoefVals] : n \in 0..MaxLen}

\* The first six Taylor coefficients d1..d6 of a rational function with
\* denominator 1 + q1 t + q2 t^2 whose coefficients obey the recurrence
\* d_k + q1 d_{k-1} + q2 d_{k-2} = 0 from k = 4 on, read as Borel
\* coefficients: the series is c_n = n! d_n (n = 1..5) and its true next
\* coefficient is 6! d6.
RationalSource(q1, q2, d1, d2, d3) ==
    LET d4 == -(q1 * d3 + q2 * d2)
        d5 == -(q1 * d4 + q2 * d3)
        d6 == -(q1 * d5 + q2 * d4)
        d  == <<d1, d2, d3, d4, d5>>
    IN  [series |-> [n \in 1..5 |-> FromInt(factorial(n) * d[n])],
         c6     |-> FromInt(factorial(6) * d6)]

GenVals == (-MaxGen)..MaxGen
RationalInputs ==
    {RationalSource(g[1], g[2], g[3], g[4], g[5]) :
        g \in GenVals \X GenVals \X GenVals \X GenVals \X GenVals}

\* An input with no known source function.
PlainStarts == {[series |-> c, c6 |-> Unset] : c \in PlainInputs}

\* The locals of a function that is not running.
NotRun == [pc |-> "idle"]

\* Two executions of a script, for the properties that compare two runs.
Runs == {"r1", "r2"}
NoRuns == [r \in Runs |-> NotRun]

\* No prediction of the model has been computed.
NoPredictions ==
    /\ c6_teu = Unset
    /\ c7_teu = Unset
    /\ divergence = Unset
    /\ mu_h = Unset
    /\ c5_hero = Unset
    /\ c6_hero = Unset
    /\ c7_hero = Unset

\* The scenario audit and the other scripts are not running.
NoAudit ==
    /\ gauge = NotRun
    /\ vacuum = NotRun
    /\ vegas = NoRuns
    /\ mercury = NoRuns
    /\ audit_pc = "idle"
    /\ scen = 0
    /\ mu = Unset
    /\ mu_dark = Unset
    /\ c6_pade = Unset
    /\ audit_data = <<>>
    /\ NoPredictions

\* Caller "c1" stands at the entry of a call (line 74) with its argument
\* chosen; its locals are unassigned.  Caller "c2" makes no call.
Init ==
    /\ \E in \in PlainStarts \cup RationalInputs :
         /\ coeffs_list = [p \in Callers |-> IF p = "c1" THEN in.series ELSE <<>>]
         /\ analytic_c6 = [p \in Callers |-> IF p = "c1" THEN in.c6 ELSE Unset]
    /\ pc = [p \in Callers |-> IF p = "c1" THEN "L74" ELSE "idle"]
    /\ b = [p \in Callers |-> Unset]
    /\ A_mat = [p \in Callers |-> Unset]
    /\ Y_vec = [p \in Callers |-> Unset]
    /\ q = [p \in Callers |-> Unset]
    /\ b6 = [p \in Callers |-> Unset]
    /\ c6_pred = [p \in Callers |-> Unset]
    /\ outcome = [p \in Callers |-> NoOutcome]
    /\ TARGETS_BASE = TargetsBaseTable
    /\ SCENARIOS = ScenariosTable
    /\ history = <<>>
    /\ NoAudit

\* ------------------------------------------------------------------------
\* The steps of a call
\* ------------------------------------------------------------------------
\* Line 74: b = []
L74(p) ==
    /\ pc[p] = "L74"
    /\ b' = [b EXCEPT ![p] = <<>>]
    /\ pc' = [pc EXCEPT ![p] = "L75"]
    /\ UNCHANGED <<coeffs_list, A_mat, Y_vec, q, b6, c6_pred, outcome, analytic_c6, TARGETS_BASE, SCENARIOS, elsewhere>>

\* Mutant of L75_loop: the transform is also written back into the argument.
L75_loop_in_place(p) ==
    /\ pc[p] = "L75"
    /\ Len(b[p]) < Len(coeffs_list[p])
    /\ LET n == Len(b[p]) + 1
       IN  /\ b' = [b EXCEPT ![p] = Append(b[p], borel(coeffs_list[p][n], n))]
           /\ coeffs_list' = [coeffs_list EXCEPT ![p][n] = borel(coeffs_list[p][n], n)]
    /\ UNCHANGED <<pc, A_mat, Y_vec, q, b6, c6_pred, outcome, analytic_c6, TARGETS_BASE, SCENARIOS, elsewhere>>

\* Mutant of L75_loop: b is one list shared by all callers.
L75_loop_shared_b(p) ==
    /\ pc[p] = "L75"
    /\ Len(b[p]) < Len(coeffs_list[p])
    /\ LET n == Len(b[p]) + 1
       IN  b' = [r \in Callers |-> Append(b[p], borel(coeffs_list[p][n], n))]
    /\ UNCHANGED <<pc, coeffs_list, A_mat, Y_vec, q, b6, c6_pred, outcome, analytic_c6, TARGETS_BASE, SCENARIOS, elsewhere>>

\* Lines 75-77: one turn of the loop over enumerate(coeffs_list), n = i + 1.
L75_loop(p) ==
    /\ pc[p] = "L75"
    /\ Len(b[p]) < Len(coeffs_list[p])
    /\ LET n == Len(b[p]) + 1
       IN  b' = [b EXCEPT ![p] = Append(b[p], borel(coeffs_list[p][n], n))]
    /\ UNCHANGED <<pc, coeffs_list, A_mat, Y_vec, q, b6, c6_pred, outcome, analytic_c6, TARGETS_BASE, SCENARIOS, elsewhere>>

\* Line 75: the loop is exhausted.
L75_exit(p) ==
    /\ pc[p] = "L75"
    /\ Len(b[p]) = Len(coeffs_list[p])
    /\ pc' = [pc EXCEPT ![p] = "L89"]
    /\ UNCHANGED <<coeffs_list, b, A_mat, Y_vec, q, b6, c6_pred, outcome, analytic_c6, TARGETS_BASE, SCENARIOS, elsewhere>>

\* Mutant of L89: the statement moved inside the try block, so that the bare
\* except turns its IndexError into the NaN of line 115.
L89_inside_try(p) ==
    /\ pc[p] = "L89"
    /\ IF L89_index_error(b[p])
       THEN /\ pc' = [pc EXCEPT ![p] = "L115"]
            /\ UNCHANGED A_mat
       ELSE /\ A_mat' = [A_mat EXCEPT ![p] = build_A_mat(b[p])]
            /\ pc' = [pc EXCEPT ![p] = "L91"]
    /\ UNCHANGED <<coeffs_list, b, Y_vec, q, b6, c6_pred, outcome, analytic_c6, TARGETS_BASE, SCENARIOS, elsewhere>>

\* Lines 89-90: the statement builds A_mat, or raises (see L89_index_error).
L89(p) ==
    /\ pc[p] = "L89"
    /\ IF L89_index_error(b[p])
       THEN /\ outcome' = [outcome EXCEPT ![p] = Raised("IndexError")]
            /\ pc' = [pc EXCEPT ![p] = "done"]
            /\ UNCHANGED A_mat
       ELSE /\ A_mat' = [A_mat EXCEPT ![p] = build_A_mat(b[p])]
            /\ pc' = [pc EXCEPT ![p] = "L91"]
            /\ UNCHANGED outcome
    /\ UNCHANGED <<coeffs_list, b, Y_vec, q, b6, c6_pred, analytic_c6, TARGETS_BASE, SCENARIOS, elsewhere>>

\* Line 91: the statement builds Y_vec, or raises (see L91_index_error).
L91(p) ==
    /\ pc[p] = "L91"
    /\ IF L91_index_error(b[p])
       THEN /\ outcome' = [outcome EXCEPT ![p] = Raised("IndexError")]
            /\ pc' = [pc EXCEPT ![p] = "done"]
            /\ UNCHANGED Y_vec
       ELSE /\ Y_vec' = [Y_vec EXCEPT ![p] = build_Y_vec(b[p])]
            /\ pc' = [pc EXCEPT ![p] = "L94"]
            /\ UNCHANGED outcome
    /\ UNCHANGED <<coeffs_list, b, A_mat, q, b6, c6_pred, analytic_c6, TARGETS_BASE, SCENARIOS, elsewhere>>

\* Lines 93-95: q = np.linalg.solve(A_mat, Y_vec); q1, q2 = q[0], q[1].
\* LinAlgError is caught by the bare except of line 114.
L94(p) ==
    /\ pc[p] = "L94"
    /\ LET r == linalg_solve(A_mat[p], Y_vec[p])
       IN  IF r.singular
           THEN /\ pc' = [pc EXCEPT ![p] = "L115"]
                /\ UNCHANGED q
           ELSE /\ q' = [q EXCEPT ![p] = r.x]
                /\ pc' = [pc EXCEPT ![p] = "L108"]
    /\ UNCHANGED <<coeffs_list, b, A_mat, Y_vec, b6, c6_pred, outcome, analytic_c6, TARGETS_BASE, SCENARIOS, elsewhere>>

\* Line 108
L108(p) ==
    /\ pc[p] = "L108"
    /\ b6' = [b6 EXCEPT ![p] = extrapolate(b[p], q[p])]
    /\ pc' = [pc EXCEPT ![p] = "L111"]
    /\ UNCHANGED <<coeffs_list, b, A_mat, Y_vec, q, c6_pred, outcome, analytic_c6, TARGETS_BASE, SCENARIOS, elsewhere>>

\* Line 111
L111(p) ==
    /\ pc[p] = "L111"
    /\ c6_pred' = [c6_pred EXCEPT ![p] = inverse_borel(b6[p])]
    /\ pc' = [pc EXCEPT ![p] = "L113"]
    /\ UNCHANGED <<coeffs_list, b, A_mat, Y_vec, q, b6, outcome, analytic_c6, TARGETS_BASE, SCENARIOS, elsewhere>>

\* Mutant of L113: the estimate is added to a running total kept across
\* calls, and the total is returned.
L113_running_total(p) ==
    /\ pc[p] = "L113"
    /\ LET last == history[Len(history)]
           prev == IF history # <<>> /\ last.outcome.kind = "return"
                                   /\ ~IsNaN(last.outcome.value)
                   THEN last.outcome.value ELSE Zero
       IN  outcome' = [outcome EXCEPT ![p] = Returned(RAdd(c6_pred[p], prev))]
    /\ pc' = [pc EXCEPT ![p] = "done"]
    /\ UNCHANGED <<coeffs_list, b, A_mat, Y_vec, q, b6, c6_pred, analytic_c6, TARGETS_BASE, SCENARIOS, elsewhere>>

\* Line 113: return c6_pred
L113(p) ==
    /\ pc[p] = "L113"
    /\ outcome' = [outcome EXCEPT ![p] = Returned(c6_pred[p])]
    /\ pc' = [pc EXCEPT ![p] = "done"]
    /\ UNCHANGED <<coeffs_list, b, A_mat, Y_vec, q, b6, c6_pred, analytic_c6, TARGETS_BASE, SCENARIOS, elsewhere>>

\* Mutant of L115: the handler returns 0.
L115_returns_zero(p) ==
    /\ pc[p] = "L115"
    /\ outcome' = [outcome EXCEPT ![p] = Returned(Zero)]
    /\ pc' = [pc EXCEPT ![p] = "done"]
    /\ UNCHANGED <<coeffs_list, b, A_mat, Y_vec, q, b6, c6_pred, analytic_c6, TARGETS_BASE, SCENARIOS, elsewhere>>

\* Lines 114-115: except: return np.nan
L115(p) ==
    /\ pc[p] = "L115"
    /\ outcome' = [outcome EXCEPT ![p] = Returned(NaN)]
    /\ pc' = [pc EXCEPT ![p] = "done"]
    /\ UNCHANGED <<coeffs_list, b, A_mat, Y_vec, q, b6, c6_pred, analytic_c6, TARGETS_BASE, SCENARIOS, elsewhere>>

Next ==
    \E p \in Callers :
        \/ L74(p)
        \/ L75_loop(p)
        \/ L75_exit(p)
        \/ L89(p)
        \/ L91(p)
        \/ L94(p)
        \/ L108(p)
        \/ L111(p)
        \/ L113(p)
        \/ L115(p)

Spec == Init /\ [][Next]_vars

\* ------------------------------------------------------------------------
\* A caller that calls again
\* ------------------------------------------------------------------------
MaxCalls == 3

Ints(s) == [i \in 1..Len(s) |-> FromInt(s[i])]

\* Line 169: coeffs_absolute = [TARGETS_BASE[1], ..., TARGETS_BASE[4], c5_val]
coeffs_absolute(targets, c5_val) ==
    <<targets[1], targets[2], targets[3], targets[4], c5_val>>

\* The series with its alternating signs (the "alternation" of lines 162 and
\* 170): the coefficients of even order are negative.
signed_series(c) == [i \in 1..Len(c) |-> IF i % 2 = 0 THEN RNeg(c[i]) ELSE c[i]]

\* [0.5, -0.328478965, 1.181241456, -1.912245764, 6.8]
SignedSeries ==
    signed_series(coeffs_absolute(TargetsBaseTable, Lookup(ScenariosTable, "Aoyama 2025")))

\* Arguments of every kind of outcome: a number from small coefficients, a
\* number from the coefficients of the script without and with their signs,
\* NaN (singular system), and IndexError (short list); and a list longer
\* than five.
RepeatInputs ==
    { Ints(<<-1, -1, -1, -1, 0>>),
      Ints(<<1, 0, 1, 1, 1, 1>>),
      Ints(<<0, 0, 0, 0, 0>>),
      Ints(<<1, 1, 1>>),
      coeffs_absolute(TargetsBaseTable, Lookup(ScenariosTable, "Aoyama 2025")),
      SignedSeries }

InitRepeat ==
    /\ \E in \in RepeatInputs :
         coeffs_list = [p \in Callers |-> IF p = "c1" THEN in ELSE <<>>]
    /\ analytic_c6 = [p \in Callers |-> Unset]
    /\ pc = [p \in Callers |-> IF p = "c1" THEN "L74" ELSE "idle"]
    /\ b = [p \in Callers |-> Unset]
    /\ A_mat = [p \in Callers |-> Unset]
    /\ Y_vec = [p \in Callers |-> Unset]
    /\ q = [p \in Callers |-> Unset]
    /\ b6 = [p \in Callers |-> Unset]
    /\ c6_pred = [p \in Callers |-> Unset]
    /\ outcome = [p \in Callers |-> NoOutcome]
    /\ TARGETS_BASE = TargetsBaseTable
    /\ SCENARIOS = ScenariosTable
    /\ history = <<>>
    /\ NoAudit

\* The caller takes the outcome of its finished call and calls again with
\* the argument in; the new call starts with its locals unassigned.
Recall(p, in) ==
    /\ pc[p] = "done"
    /\ Len(history) < MaxCalls - 1
    /\ history' = Append(history, [input |-> coeffs_list[p], outcome |-> outcome[p]])
    /\ coeffs_list' = [coeffs_list EXCEPT ![p] = in]
    /\ pc' = [pc EXCEPT ![p] = "L74"]
    /\ b' = [b EXCEPT ![p] = Unset]
    /\ A_mat' = [A_mat EXCEPT ![p] = Unset]
    /\ Y_vec' = [Y_vec EXCEPT ![p] = Unset]
    /\ q' = [q EXCEPT ![p] = Unset]
    /\ b6' = [b6 EXCEPT ![p] = Unset]
    /\ c6_pred' = [c6_pred EXCEPT ![p] = Unset]
    /\ outcome' = [outcome EXCEPT ![p] = NoOutcome]
    /\ UNCHANGED <<analytic_c6, TARGETS_BASE, SCENARIOS,
                   audit_pc, scen, mu, mu_dark, c6_pade, audit_data,
                   predictions, scripts>>

NextRepeat ==
    \/ Next
    \/ \E p \in Callers, in \in RepeatInputs : Recall(p, in)

SpecRepeat == InitRepeat /\ [][NextRepeat]_vars

\* ------------------------------------------------------------------------
\* The scenario audit (lines 155-201)
\* ------------------------------------------------------------------------
\* Mutant of mu_bounds: the dark_mode flag ignored.
mu_bounds_flag_ignored(dark_mode) == <<Rat(72, 100), Rat(85, 100)>>

\* Lines 141-145: bounds[0], the interval of mu.
mu_bounds(dark_mode) ==
    IF dark_mode THEN <<Rat(101, 100), Rat(13, 10)>>
    ELSE <<Rat(72, 100), Rat(85, 100)>>

\* Lines 117-148: the values res.x[0] may take.  differential_evolution keeps
\* every member of its population inside the bounds; which point it ends on
\* is the library's choice, taken here from the two ends of the interval.
solve_scenario(c5_target, dark_mode) ==
    {mu_bounds(dark_mode)[1], mu_bounds(dark_mode)[2]}

\* Lines 48-50: teu_model(n, mu, A, delta, k, phi) =
\* A * gamma(mu n + delta) * |sin(k n + phi)|, a number that is never
\* negative.  It is kept as the term itself, sign * teu_model(n, fit), where
\* fit is the mu of the fit whose parameters the term is evaluated at.
teu_model(n, fit) == [sign |-> 1, n |-> n, fit |-> fit]

\* -t and abs(t) of a term.
term_neg(t) == [t EXCEPT !.sign = -t.sign]
term_abs(t) == [t EXCEPT !.sign = 1]

\* Lines 127 and 216: the terms the two objectives compare with the targets,
\* preds = [teu_model(n, ...) for n in range(1, 6)] in solve_scenario and
\* range(1, 5) in solve_hero.
scenario_preds(fit) == [n \in 1..5 |-> teu_model(n, fit)]
hero_preds(fit) == [n \in 1..4 |-> teu_model(n, fit)]

\* Lines 226-232 of solve_hero: the mu of res.x lies in the bounds
\* (0.74, 0.77); the two ends stand for the interval.
solve_hero == {Rat(74, 100), Rat(77, 100)}

\* Mutant of abs_difference: NaN read as 0.
abs_difference_nan_as_zero(t, x) ==
    <<"abs", term_abs(t), IF IsNaN(x) THEN Zero ELSE RAbs(x)>>

\* Line 173: abs(abs(c6_teu) - abs(c6_pade)).  Arithmetic on NaN gives NaN;
\* otherwise the difference stays a term.
abs_difference(t, x) ==
    IF IsNaN(x) THEN NaN ELSE <<"abs", term_abs(t), RAbs(x)>>

\* The audit starts: audit_data = [] (line 155), no item of SCENARIOS taken.
InitAudit ==
    /\ pc = [p \in Callers |-> "idle"]
    /\ coeffs_list = [p \in Callers |-> <<>>]
    /\ analytic_c6 = [p \in Callers |-> Unset]
    /\ b = [p \in Callers |-> Unset]
    /\ A_mat = [p \in Callers |-> Unset]
    /\ Y_vec = [p \in Callers |-> Unset]
    /\ q = [p \in Callers |-> Unset]
    /\ b6 = [p \in Callers |-> Unset]
    /\ c6_pred = [p \in Callers |-> Unset]
    /\ outcome = [p \in Callers |-> NoOutcome]
    /\ TARGETS_BASE = TargetsBaseTable
    /\ SCENARIOS = ScenariosTable
    /\ history = <<>>
    /\ gauge = NotRun
    /\ vacuum = NotRun
    /\ vegas = NoRuns
    /\ mercury = NoRuns
    /\ audit_pc = "A157"
    /\ scen = 0
    /\ mu = Unset
    /\ mu_dark = Unset
    /\ c6_pade = Unset
    /\ audit_data = <<>>
    /\ NoPredictions

\* The state the audit has no statement about.
call_state ==
    <<pc, coeffs_list, b, A_mat, Y_vec, q, b6, c6_pred, outcome, analytic_c6, history,
      scripts>>

\* The locals of the hero predictions (lines 239-244).
hero_state == <<mu_h, c5_hero, c6_hero, c7_hero>>

\* Line 157: the loop takes the next item (name, c5_val) of SCENARIOS.
A157_loop ==
    /\ audit_pc = "A157"
    /\ scen < Len(SCENARIOS)
    /\ scen' = scen + 1
    /\ audit_pc' = "A159"
    /\ UNCHANGED <<mu, mu_dark, c6_pade, audit_data, c6_teu, c7_teu, divergence,
                   hero_state, TARGETS_BASE, SCENARIOS, call_state>>

\* Line 157: the items are exhausted; the script goes on to solve_hero.
A157_exit ==
    /\ audit_pc = "A157"
    /\ scen = Len(SCENARIOS)
    /\ audit_pc' = "A239"
    /\ UNCHANGED <<scen, mu, mu_dark, c6_pade, audit_data, c6_teu, c7_teu, divergence,
                   hero_state, TARGETS_BASE, SCENARIOS, call_state>>

\* Line 159: mu, A, delta, k, phi = solve_scenario(c5_val, dark_mode=False)
A159 ==
    /\ audit_pc = "A159"
    /\ \E x \in solve_scenario(SCENARIOS[scen][2], FALSE) : mu' = x
    /\ audit_pc' = "A162"
    /\ UNCHANGED <<scen, mu_dark, c6_pade, audit_data, c6_teu, c7_teu, divergence,
                   hero_state, TARGETS_BASE, SCENARIOS, call_state>>

\* Line 162: c6_teu = -teu_model(6, mu, A, delta, k, phi)
A162 ==
    /\ audit_pc = "A162"
    /\ c6_teu' = term_neg(teu_model(6, mu))
    /\ audit_pc' = "A163"
    /\ UNCHANGED <<scen, mu, mu_dark, c6_pade, audit_data, c7_teu, divergence,
                   hero_state, TARGETS_BASE, SCENARIOS, call_state>>

\* Line 163: c7_teu = teu_model(7, mu, A, delta, k, phi)
A163 ==
    /\ audit_pc = "A163"
    /\ c7_teu' = teu_model(7, mu)
    /\ audit_pc' = "A166"
    /\ UNCHANGED <<scen, mu, mu_dark, c6_pade, audit_data, c6_teu, divergence,
                   hero_state, TARGETS_BASE, SCENARIOS, call_state>>

\* Line 166: mu_dark, _, _, _, _ = solve_scenario(c5_val, dark_mode=True)
A166 ==
    /\ audit_pc = "A166"
    /\ \E x \in solve_scenario(SCENARIOS[scen][2], TRUE) : mu_dark' = x
    /\ audit_pc' = "A169"
    /\ UNCHANGED <<scen, mu, c6_pade, audit_data, c6_teu, c7_teu, divergence,
                   hero_state, TARGETS_BASE, SCENARIOS, call_state>>

\* Mutant of A169: the minus sign of line 170 dropped.
A169_unnegated ==
    /\ audit_pc = "A169"
    /\ LET r == pade_prediction(coeffs_absolute(TARGETS_BASE, SCENARIOS[scen][2])).outcome
       IN  IF r.kind = "raise"
           THEN /\ audit_pc' = "raised"
                /\ UNCHANGED c6_pade
           ELSE /\ c6_pade' = r.value
                /\ audit_pc' = "A173"
    /\ UNCHANGED <<scen, mu, mu_dark, audit_data, c6_teu, c7_teu, divergence,
                   hero_state, TARGETS_BASE, SCENARIOS, call_state>>

\* Lines 169-170: c6_pade = -pade_prediction(coeffs_absolute).  An exception
\* of the call is not caught here and ends the script; a returned value is
\* negated and kept, whatever it is.
A169 ==
    /\ audit_pc = "A169"
    /\ LET r == pade_prediction(coeffs_absolute(TARGETS_BASE, SCENARIOS[scen][2])).outcome
       IN  IF r.kind = "raise"
           THEN /\ audit_pc' = "raised"
                /\ UNCHANGED c6_pade
           ELSE /\ c6_pade' = RNeg(r.value)
                /\ audit_pc' = "A173"
    /\ UNCHANGED <<scen, mu, mu_dark, audit_data, c6_teu, c7_teu, divergence,
                   hero_state, TARGETS_BASE, SCENARIOS, call_state>>

\* Line 173: divergence = abs(abs(c6_teu) - abs(c6_pade))
A173 ==
    /\ audit_pc = "A173"
    /\ divergence' = abs_difference(c6_teu, c6_pade)
    /\ audit_pc' = "A188"
    /\ UNCHANGED <<scen, mu, mu_dark, c6_pade, audit_data, c6_teu, c7_teu,
                   hero_state, TARGETS_BASE, SCENARIOS, call_state>>

\* Lines 188-201: the row of the scenario, with the columns the audit takes
\* from solve_scenario, teu_model and pade_prediction.
A188 ==
    /\ audit_pc = "A188"
    /\ audit_data' = Append(audit_data,
                            [Scenario   |-> SCENARIOS[scen][1],
                             C5_Input   |-> SCENARIOS[scen][2],
                             Mu_Sub     |-> mu,
                             Mu_Dark    |-> mu_dark,
                             C6_TEU     |-> c6_teu,
                             C6_Pade    |-> c6_pade,
                             Divergence |-> divergence])
    /\ audit_pc' = "A157"
    /\ UNCHANGED <<scen, mu, mu_dark, c6_pade, c6_teu, c7_teu, divergence,
                   hero_state, TARGETS_BASE, SCENARIOS, call_state>>

audit_state == <<scen, mu, mu_dark, c6_pade, audit_data, c6_teu, c7_teu, divergence>>

\* Line 239: mu_h, A_h, d_h, k_h, p_h = solve_hero()
A239 ==
    /\ audit_pc = "A239"
    /\ \E x \in solve_hero : mu_h' = x
    /\ audit_pc' = "A242"
    /\ UNCHANGED <<c5_hero, c6_hero, c7_hero, audit_state, TARGETS_BASE, SCENARIOS,
                   call_state>>

\* Line 242: c5_hero = teu_model(5, mu_h, A_h, d_h, k_h, p_h)
A242 ==
    /\ audit_pc = "A242"
    /\ c5_hero' = teu_model(5, mu_h)
    /\ audit_pc' = "A243"
    /\ UNCHANGED <<mu_h, c6_hero, c7_hero, audit_state, TARGETS_BASE, SCENARIOS,
                   call_state>>

\* Mutant of A243: the minus sign of line 243 dropped.
A243_unnegated ==
    /\ audit_pc = "A243"
    /\ c6_hero' = teu_model(6, mu_h)
    /\ audit_pc' = "A244"
    /\ UNCHANGED <<mu_h, c5_hero, c7_hero, audit_state, TARGETS_BASE, SCENARIOS,
                   call_state>>

\* Line 243: c6_hero = -teu_model(6, mu_h, A_h, d_h, k_h, p_h)
A243 ==
    /\ audit_pc = "A243"
    /\ c6_hero' = term_neg(teu_model(6, mu_h))
    /\ audit_pc' = "A244"
    /\ UNCHANGED <<mu_h, c5_hero, c7_hero, audit_state, TARGETS_BASE, SCENARIOS,
                   call_state>>

\* Line 244: c7_hero = teu_model(7, mu_h, A_h, d_h, k_h, p_h)
A244 ==
    /\ audit_pc = "A244"
    /\ c7_hero' = teu_model(7, mu_h)
    /\ audit_pc' = "A247"
    /\ UNCHANGED <<mu_h, c5_hero, c6_hero, audit_state, TARGETS_BASE, SCENARIOS,
                   call_state>>

NextAudit ==
    \/ A157_loop
    \/ A157_exit
    \/ A159
    \/ A162
    \/ A163
    \/ A166
    \/ A169
    \/ A173
    \/ A188
    \/ A239
    \/ A242
    \/ A243
    \/ A244

SpecAudit == InitAudit /\ [][NextAudit]_vars

\* The two tables are literals of the script.  Tables of the same shape the
\* literals could be edited to: the script's own, one whose C2, C3, C4 make
\* the system of lines 89-91 singular (b2 = b3 = b4 = 1), and one of small
\* numbers; with two candidates for C5 each.
AuditTargets == {TargetsBaseTable, Ints(<<1, 2, 6, 24>>), Ints(<<1, 1, 1, 1>>)}
AuditScenarios ==
    { SubSeq(ScenariosTable, 1, 2),
      <<<<"one", FromInt(1)>>, <<"two", FromInt(2)>>>> }

\* The audit starts on some pair of tables.
InitAuditTables ==
    /\ pc = [p \in Callers |-> "idle"]
    /\ coeffs_list = [p \in Callers |-> <<>>]
    /\ analytic_c6 = [p \in Callers |-> Unset]
    /\ b = [p \in Callers |-> Unset]
    /\ A_mat = [p \in Callers |-> Unset]
    /\ Y_vec = [p \in Callers |-> Unset]
    /\ q = [p \in Callers |-> Unset]
    /\ b6 = [p \in Callers |-> Unset]
    /\ c6_pred = [p \in Callers |-> Unset]
    /\ outcome = [p \in Callers |-> NoOutcome]
    /\ TARGETS_BASE \in AuditTargets
    /\ SCENARIOS \in AuditScenarios
    /\ history = <<>>
    /\ gauge = NotRun
    /\ vacuum = NotRun
    /\ vegas = NoRuns
    /\ mercury = NoRuns
    /\ audit_pc = "A157"
    /\ scen = 0
    /\ mu = Unset
    /\ mu_dark = Unset
    /\ c6_pade = Unset
    /\ audit_data = <<>>
    /\ NoPredictions

\* The state the audit has no statement about.

SpecAuditTables == InitAuditTables /\ [][NextAudit]_vars

\* ------------------------------------------------------------------------
\* numpy on arrays of floats
\* ------------------------------------------------------------------------
RECURSIVE Sum(_)
Sum(a) == IF a = <<>> THEN Zero ELSE RAdd(a[1], Sum(Tail(a)))

\* np.mean
mean(a) == RDiv(Sum(a), FromInt(Len(a)))

\* np.var: the mean of the squared deviations from the mean (ddof = 0).
np_var(a) ==
    LET m == mean(a)
    IN  mean([i \in 1..Len(a) |-> RMul(RSub(a[i], m), RSub(a[i], m))])

\* The least r in lo..hi with r * r >= v, for lo * lo < v <= hi * hi or lo = hi.
RECURSIVE SqrtSearch(_, _, _)
SqrtSearch(v, lo, hi) ==
    IF lo = hi THEN lo
    ELSE LET m == (lo + hi) \div 2
         IN  IF m * m >= v THEN SqrtSearch(v, lo, m) ELSE SqrtSearch(v, m + 1, hi)

\* np.sqrt of x >= 0: exact where the root is a multiple of 1/(100 d) for
\* the denominator d of x (0 in particular), and otherwise the next such
\* multiple above the root: the root of a positive number is positive.
np_sqrt(x) ==
    IF x[1] = 0 THEN Zero
    ELSE Rat(SqrtSearch(x[1] * x[2] * 10000, 0, 46340), 100 * x[2])

\* ------------------------------------------------------------------------
\* teu_unified_gauge_mass.py and teu_photon_mass_solver.py
\* ------------------------------------------------------------------------
\* The number of steps of the simulated walk (N_steps of the scripts).
NSteps == 2

\* Values a draw of np.random.normal may give.
NoiseVals == {FromInt(-1), Zero, FromInt(2)}
Draws == [1..NSteps -> NoiseVals]

\* Values of base_mass_kg (lines 25-27 of teu_unified_gauge_mass.py) and of
\* the parameter A_lac (line 4 of teu_photon_mass_solver.py, default 0.597).
MassScales == {FromInt(1), Rat(3, 2)}
Lacunarities == {Rat(597, 1000), FromInt(1)}

\* (noise_x * noise_y) - (noise_y * noise_x * 0.5), elementwise
spin_coupling(x, y) ==
    [i \in 1..Len(x) |-> RSub(RMul(x[i], y[i]), RMul(RMul(y[i], x[i]), Rat(1, 2)))]

\* Mutant of vector_coupling: the factor 0.5 of the spin algebra kept.
vector_coupling_halved(x, y) ==
    [i \in 1..Len(x) |-> RSub(RMul(x[i], y[i]), RMul(RMul(y[i], x[i]), Rat(1, 2)))]

\* (noise_x * noise_y) - (noise_y * noise_x), elementwise
vector_coupling(x, y) ==
    [i \in 1..Len(x) |-> RSub(RMul(x[i], y[i]), RMul(y[i], x[i]))]

GaugeStart ==
    [pc |-> "U27", base_mass_kg |-> Unset, noise_x |-> Unset, noise_y |-> Unset,
     spin_residue |-> Unset, fermi_filter |-> Unset, vector_residue |-> Unset,
     boson_filter |-> Unset, electron_mass_kg |-> Unset, photon_mass_kg |-> Unset]

VacuumStart(A) ==
    [pc |-> "V21", A_lac |-> A, noise_x |-> Unset, noise_y |-> Unset,
     spinor_coupling |-> Unset, fermion_variance |-> Unset,
     electron_mass_gap |-> Unset, vector_coupling |-> Unset,
     boson_variance |-> Unset, photon_mass_gap |-> Unset]

\* One of the two scripts is started; the solver with some A_lac.
InitGauge ==
    /\ pc = [p \in Callers |-> "idle"]
    /\ coeffs_list = [p \in Callers |-> <<>>]
    /\ analytic_c6 = [p \in Callers |-> Unset]
    /\ b = [p \in Callers |-> Unset]
    /\ A_mat = [p \in Callers |-> Unset]
    /\ Y_vec = [p \in Callers |-> Unset]
    /\ q = [p \in Callers |-> Unset]
    /\ b6 = [p \in Callers |-> Unset]
    /\ c6_pred = [p \in Callers |-> Unset]
    /\ outcome = [p \in Callers |-> NoOutcome]
    /\ TARGETS_BASE = TargetsBaseTable
    /\ SCENARIOS = ScenariosTable
    /\ history = <<>>
    /\ audit_pc = "idle"
    /\ scen = 0
    /\ mu = Unset
    /\ mu_dark = Unset
    /\ c6_pade = Unset
    /\ audit_data = <<>>
    /\ NoPredictions
    /\ \/ gauge = GaugeStart /\ vacuum = NotRun
       \/ gauge = NotRun /\ \E A \in Lacunarities : vacuum = VacuumStart(A)
    /\ vegas = NoRuns
    /\ mercury = NoRuns

\* The state the two simulations have no statement about.
not_simulated ==
    <<pc, coeffs_list, b, A_mat, Y_vec, q, b6, c6_pred, outcome, analytic_c6,
      TARGETS_BASE, SCENARIOS, history, audit_pc, scen, mu, mu_dark, c6_pade, audit_data,
      predictions,
      vegas, mercury>>

\* teu_unified_gauge_mass.py lines 25-27: base_mass_kg, a positive float.
U27 ==
    /\ gauge.pc = "U27"
    /\ \E m \in MassScales : gauge' = [gauge EXCEPT !.pc = "U37", !.base_mass_kg = m]
    /\ UNCHANGED <<vacuum, not_simulated>>

\* Lines 37-38: the draws of noise_x and noise_y.
U37 ==
    /\ gauge.pc = "U37"
    /\ \E x \in Draws, y \in Draws :
         gauge' = [gauge EXCEPT !.pc = "U42", !.noise_x = x, !.noise_y = y]
    /\ UNCHANGED <<vacuum, not_simulated>>

\* Lines 42-43: spin_residue and fermi_filter.
U42 ==
    /\ gauge.pc = "U42"
    /\ LET r == spin_coupling(gauge.noise_x, gauge.noise_y)
       IN  gauge' = [gauge EXCEPT !.pc = "U47", !.spin_residue = r,
                                  !.fermi_filter = RDiv(np_sqrt(np_var(r)), Rat(1, 2))]
    /\ UNCHANGED <<vacuum, not_simulated>>

\* Line 47: vector_residue.
U47 ==
    /\ gauge.pc = "U47"
    /\ gauge' = [gauge EXCEPT !.pc = "U48",
                              !.vector_residue = vector_coupling(gauge.noise_x, gauge.noise_y)]
    /\ UNCHANGED <<vacuum, not_simulated>>

\* Line 48: boson_filter = np.var(vector_residue).
U48 ==
    /\ gauge.pc = "U48"
    /\ gauge' = [gauge EXCEPT !.pc = "U51", !.boson_filter = np_var(gauge.vector_residue)]
    /\ UNCHANGED <<vacuum, not_simulated>>

\* Lines 51-52: the two masses.
U51 ==
    /\ gauge.pc = "U51"
    /\ gauge' = [gauge EXCEPT
                    !.pc = "end",
                    !.electron_mass_kg = RMul(gauge.base_mass_kg, gauge.fermi_filter),
                    !.photon_mass_kg = RMul(gauge.base_mass_kg, gauge.boson_filter)]
    /\ UNCHANGED <<vacuum, not_simulated>>

\* teu_photon_mass_solver.py lines 21-22: the draws of noise_x and noise_y.
V21 ==
    /\ vacuum.pc = "V21"
    /\ \E x \in Draws, y \in Draws :
         vacuum' = [vacuum EXCEPT !.pc = "V32", !.noise_x = x, !.noise_y = y]
    /\ UNCHANGED <<gauge, not_simulated>>

\* Lines 32-37: spinor_coupling, fermion_variance and electron_mass_gap.
V32 ==
    /\ vacuum.pc = "V32"
    /\ LET r == spin_coupling(vacuum.noise_x, vacuum.noise_y)
       IN  vacuum' = [vacuum EXCEPT
                        !.pc = "V46", !.spinor_coupling = r,
                        !.fermion_variance = np_var(r),
                        !.electron_mass_gap = RMul(np_sqrt(np_var(r)), vacuum.A_lac)]
    /\ UNCHANGED <<gauge, not_simulated>>

\* Line 46: vector_coupling.
V46 ==
    /\ vacuum.pc = "V46"
    /\ vacuum' = [vacuum EXCEPT !.pc = "V48",
                                !.vector_coupling = vector_coupling(vacuum.noise_x, vacuum.noise_y)]
    /\ UNCHANGED <<gauge, not_simulated>>

\* Lines 48-49: boson_variance and photon_mass_gap.
V48 ==
    /\ vacuum.pc = "V48"
    /\ LET v == np_var(vacuum.vector_coupling)
       IN  vacuum' = [vacuum EXCEPT !.pc = "end", !.boson_variance = v,
                                    !.photon_mass_gap = np_sqrt(v)]
    /\ UNCHANGED <<gauge, not_simulated>>

NextGauge ==
    \/ U27
    \/ U37
    \/ U42
    \/ U47
    \/ U48
    \/ U51
    \/ V21
    \/ V32
    \/ V46
    \/ V48

SpecGauge == InitGauge /\ [][NextGauge]_vars

\* ------------------------------------------------------------------------
\* Floats that involve pi and exp
\* ------------------------------------------------------------------------
\* 10^k as limbs
Ten(k) == [i \in 1..(k \div 3) |-> 0] \o <<Pow10(k % 3)>>

\* The float literal n e<e>, n an integer: n * 10^e.
Sci(n, e) ==
    IF n = 0 THEN BigZero
    ELSE IF e < 0 THEN <<IF n < 0 THEN -1 ELSE 1, Limbs(Abs(n)), Ten(-e)>>
    ELSE <<IF n < 0 THEN -1 ELSE 1, NMul(Limbs(Abs(n)), Ten(e)), <<1>>>>

\* The number coef * pi^pi * exp(earg), coef and earg rational: the products
\* and quotients of rationals, pi and exponentials are kept in this form, so
\* that two of them are the same number when their three parts agree.
Sym(coef, pi, earg) == [coef |-> coef, pi |-> pi, earg |-> earg]
SR(r) == Sym(r, 0, Zero)
np_pi == Sym(FromInt(1), 1, Zero)
\* math.exp / np.exp of a rational
math_exp(x) == Sym(FromInt(1), 0, x.coef)
SMul(x, y) == Sym(RMul(x.coef, y.coef), x.pi + y.pi, RAdd(x.earg, y.earg))
SDiv(x, y) == Sym(RDiv(x.coef, y.coef), x.pi - y.pi, RSub(x.earg, y.earg))
\* x - y of two rationals
SSub(x, y) == SR(RSub(x.coef, y.coef))
SEq(x, y) == REq(x.coef, y.coef) /\ x.pi = y.pi /\ REq(x.earg, y.earg)

\* The call, the audit and the two gauge simulations are not running.
OnlyRuns ==
    /\ pc = [p \in Callers |-> "idle"]
    /\ coeffs_list = [p \in Callers |-> <<>>]
    /\ analytic_c6 = [p \in Callers |-> Unset]
    /\ b = [p \in Callers |-> Unset]
    /\ A_mat = [p \in Callers |-> Unset]
    /\ Y_vec = [p \in Callers |-> Unset]
    /\ q = [p \in Callers |-> Unset]
    /\ b6 = [p \in Callers |-> Unset]
    /\ c6_pred = [p \in Callers |-> Unset]
    /\ outcome = [p \in Callers |-> NoOutcome]
    /\ TARGETS_BASE = TargetsBaseTable
    /\ SCENARIOS = ScenariosTable
    /\ history = <<>>
    /\ audit_pc = "idle"
    /\ scen = 0
    /\ mu = Unset
    /\ mu_dark = Unset
    /\ c6_pade = Unset
    /\ audit_data = <<>>
    /\ NoPredictions
    /\ gauge = NotRun
    /\ vacuum = NotRun

\* The state the runs of the two scripts below have no statement about.
not_run ==
    <<pc, coeffs_list, b, A_mat, Y_vec, q, b6, c6_pred, outcome, analytic_c6,
      TARGETS_BASE, SCENARIOS, history, audit_pc, scen, mu, mu_dark, c6_pade, audit_data,
      predictions,
      gauge, vacuum>>

\* ------------------------------------------------------------------------
\* teu_vegas_ab_initio_emergence.py
\* ------------------------------------------------------------------------
\* Lines 26-30
M_PLANCK == SR(Sci(2176434, -14))
ALPHA_INV == SR(RAdd(Dec(137035999, 6), Dec(177, 9)))
K_COULOMB == SR(RAdd(Sci(898755179, 1), Dec(23, 1)))
E_CHARGE == SR(Sci(1602176634, -28))

\* Line 48: DEPTH_VACUUM = ALPHA_INV / K_GEO, "~ 51.5278" (K_GEO comes from
\* the gamma function and a square root, lines 43-45).
DEPTH_VACUUM == SR(Dec(515278, 4))

\* Values result.mean of the Monte Carlo integration may take.
Impedances == {SR(FromInt(1)), SR(Rat(99, 100)), SR(Rat(101, 100))}

VegasStart ==
    [pc |-> "W121", base_impedance |-> Unset, scale_filter |-> Unset,
     emergent_electron_mass |-> Unset, bare_electro_force |-> Unset,
     emergent_newton_G |-> Unset]

InitVegas ==
    /\ OnlyRuns
    /\ vegas = [r \in Runs |-> VegasStart]
    /\ mercury = NoRuns

\* Lines 121-128: result = integrator(...); base_impedance = result.mean
W121(r) ==
    /\ vegas[r].pc = "W121"
    /\ \E z \in Impedances :
         vegas' = [vegas EXCEPT ![r].pc = "W141", ![r].base_impedance = z]
    /\ UNCHANGED <<mercury, not_run>>

\* Line 141: scale_filter = math.exp(-DEPTH_VACUUM)
W141(r) ==
    /\ vegas[r].pc = "W141"
    /\ vegas' = [vegas EXCEPT ![r].pc = "W145",
                              ![r].scale_filter = math_exp(SSub(SR(Zero), DEPTH_VACUUM))]
    /\ UNCHANGED <<mercury, not_run>>

\* Line 145: emergent_electron_mass = M_PLANCK * scale_filter
W145(r) ==
    /\ vegas[r].pc = "W145"
    /\ vegas' = [vegas EXCEPT ![r].pc = "W158",
                              ![r].emergent_electron_mass = SMul(M_PLANCK, vegas[r].scale_filter)]
    /\ UNCHANGED <<mercury, not_run>>

\* Line 158: bare_electro_force = K_COULOMB * E_CHARGE**2 / emergent_electron_mass**2
W158(r) ==
    /\ vegas[r].pc = "W158"
    /\ LET m == vegas[r].emergent_electron_mass
       IN  vegas' = [vegas EXCEPT
                       ![r].pc = "W159",
                       ![r].bare_electro_force =
                           SDiv(SMul(K_COULOMB, SMul(E_CHARGE, E_CHARGE)), SMul(m, m))]
    /\ UNCHANGED <<mercury, not_run>>

\* Line 159: emergent_newton_G = ALPHA_INV * bare_electro_force * scale_filter**2
W159(r) ==
    /\ vegas[r].pc = "W159"
    /\ LET f == vegas[r].scale_filter
       IN  vegas' = [vegas EXCEPT
                       ![r].pc = "end",
                       ![r].emergent_newton_G =
                           SMul(SMul(ALPHA_INV, vegas[r].bare_electro_force), SMul(f, f))]
    /\ UNCHANGED <<mercury, not_run>>

NextVegas ==
    \E r \in Runs :
        \/ W121(r)
        \/ W141(r)
        \/ W145(r)
        \/ W158(r)
        \/ W159(r)

SpecVegas == InitVegas /\ [][NextVegas]_vars

\* ------------------------------------------------------------------------
\* mercury_precession_teu.py
\* ------------------------------------------------------------------------
\* Line 17 and line 23, and a second value of each for a run of the script
\* with that constant changed.
G_values == {SR(Sci(667430, -16)), SR(Sci(1334860, -16))}
M_sun_values == {SR(Sci(198847, 25)), SR(Sci(397694, 25))}

\* Lines 16-34: the constants, with the given G and M_sun.
MercuryStart(G, M_sun) ==
    [pc |-> "M19",
     c |-> SR(Sci(299792458, 0)), G |-> G, h |-> SR(Sci(662607015, -42)),
     m_e |-> SR(Sci(91093837, -38)), M_sun |-> M_sun, a |-> SR(Sci(57909, 6)),
     e |-> SR(Dec(20563, 5)), T_orbit |-> SR(Dec(87969, 3)),
     alpha_inv |-> SR(Dec(137035999, 6)), K_geo |-> SR(Dec(2659455, 6)),
     hbar |-> Unset, revolutions_per_century |-> Unset, rad_to_arcsec |-> Unset,
     D_teu |-> Unset, lambda_e |-> Unset, N_sun |-> Unset,
     Rs_classical |-> Unset, delta_phi_rad_GR |-> Unset, precession_GR |-> Unset,
     Rs_teu |-> Unset, delta_phi_rad_TEU |-> Unset, precession_TEU |-> Unset]

InitMercury ==
    /\ OnlyRuns
    /\ vegas = NoRuns
    /\ \E G1 \in G_values, G2 \in G_values, M1 \in M_sun_values, M2 \in M_sun_values :
         mercury = [r \in Runs |-> IF r = "r1" THEN MercuryStart(G1, M1)
                                   ELSE MercuryStart(G2, M2)]

\* Line 19: hbar = h / (2 * np.pi)
M19(r) ==
    /\ mercury[r].pc = "M19"
    /\ mercury' = [mercury EXCEPT
                     ![r].pc = "M29",
                     ![r].hbar = SDiv(mercury[r].h, SMul(SR(FromInt(2)), np_pi))]
    /\ UNCHANGED <<vegas, not_run>>

\* Lines 29-30: revolutions_per_century and rad_to_arcsec
M29(r) ==
    /\ mercury[r].pc = "M29"
    /\ mercury' = [mercury EXCEPT
                     ![r].pc = "M35",
                     ![r].revolutions_per_century =
                         SDiv(SMul(SR(FromInt(100)), SR(Dec(36525, 2))), mercury[r].T_orbit),
                     ![r].rad_to_arcsec =
                         SMul(SDiv(SR(FromInt(180)), np_pi), SR(FromInt(3600)))]
    /\ UNCHANGED <<vegas, not_run>>

\* Lines 35-37: D_teu, lambda_e and N_sun
M35(r) ==
    /\ mercury[r].pc = "M35"
    /\ LET m == mercury[r]
       IN  mercury' = [mercury EXCEPT
                         ![r].pc = "M42",
                         ![r].D_teu = SDiv(m.alpha_inv, m.K_geo),
                         ![r].lambda_e = SDiv(m.hbar, SMul(m.m_e, m.c)),
                         ![r].N_sun = SDiv(m.M_sun, m.m_e)]
    /\ UNCHANGED <<vegas, not_run>>

\* a * (1 - e**2)
orbit_term(m) == SMul(m.a, SSub(SR(FromInt(1)), SMul(m.e, m.e)))

\* Line 42: Rs_classical = (2 * G * M_sun) / (c**2)
M42(r) ==
    /\ mercury[r].pc = "M42"
    /\ LET m == mercury[r]
       IN  mercury' = [mercury EXCEPT
                         ![r].pc = "M43",
                         ![r].Rs_classical =
                             SDiv(SMul(SMul(SR(FromInt(2)), m.G), m.M_sun), SMul(m.c, m.c))]
    /\ UNCHANGED <<vegas, not_run>>

\* Line 43: delta_phi_rad_GR = (3 * np.pi * Rs_classical) / (a * (1 - e**2))
M43(r) ==
    /\ mercury[r].pc = "M43"
    /\ LET m == mercury[r]
       IN  mercury' = [mercury EXCEPT
                         ![r].pc = "M44",
                         ![r].delta_phi_rad_GR =
                             SDiv(SMul(SMul(SR(FromInt(3)), np_pi), m.Rs_classical),
                                  orbit_term(m))]
    /\ UNCHANGED <<vegas, not_run>>

\* Line 44: precession_GR
M44(r) ==
    /\ mercury[r].pc = "M44"
    /\ LET m == mercury[r]
       IN  mercury' = [mercury EXCEPT
                         ![r].pc = "M52",
                         ![r].precession_GR =
                             SMul(SMul(m.delta_phi_rad_GR, m.revolutions_per_century),
                                  m.rad_to_arcsec)]
    /\ UNCHANGED <<vegas, not_run>>

\* np.exp(-2 * D_teu)
attenuation(m) == math_exp(SMul(SR(FromInt(-2)), m.D_teu))

\* Mutant of M52: the quantum radius taken from the classical one.
M52_from_classical(r) ==
    /\ mercury[r].pc = "M52"
    /\ mercury' = [mercury EXCEPT ![r].pc = "M53",
                                  ![r].Rs_teu = mercury[r].Rs_classical]
    /\ UNCHANGED <<vegas, not_run>>

\* Line 52: Rs_teu = 2 * N_sun * lambda_e * np.exp(-2 * D_teu)
M52(r) ==
    /\ mercury[r].pc = "M52"
    /\ LET m == mercury[r]
       IN  mercury' = [mercury EXCEPT
                         ![r].pc = "M53",
                         ![r].Rs_teu =
                             SMul(SMul(SMul(SR(FromInt(2)), m.N_sun), m.lambda_e),
                                  attenuation(m))]
    /\ UNCHANGED <<vegas, not_run>>

\* Line 53: delta_phi_rad_TEU
M53(r) ==
    /\ mercury[r].pc = "M53"
    /\ LET m == mercury[r]
       IN  mercury' = [mercury EXCEPT
                         ![r].pc = "M54",
                         ![r].delta_phi_rad_TEU =
                             SDiv(SMul(SMul(SMul(SMul(SR(FromInt(6)), np_pi), m.N_sun),
                                            m.lambda_e),
                                       attenuation(m)),
                                  orbit_term(m))]
    /\ UNCHANGED <<vegas, not_run>>

\* Line 54: precession_TEU
M54(r) ==
    /\ mercury[r].pc = "M54"
    /\ LET m == mercury[r]
       IN  mercury' = [mercury EXCEPT
                         ![r].pc = "end",
                         ![r].precession_TEU =
                             SMul(SMul(m.delta_phi_rad_TEU, m.revolutions_per_century),
                                  m.rad_to_arcsec)]
    /\ UNCHANGED <<vegas, not_run>>

NextMercury ==
    \E r \in Runs :
        \/ M19(r)
        \/ M29(r)
        \/ M35(r)
        \/ M42(r)
        \/ M43(r)
        \/ M44(r)
        \/ M52(r)
        \/ M53(r)
        \/ M54(r)

SpecMercury == InitMercury /\ [][NextMercury]_vars

\* ------------------------------------------------------------------------
\* Two callers at once
\* ------------------------------------------------------------------------
\* Both callers stand at the entry of a call, each with its own argument;
\* their steps interleave in any order.
InitConc ==
    /\ \E in1 \in RepeatInputs, in2 \in RepeatInputs :
         coeffs_list = [p \in Callers |-> IF p = "c1" THEN in1 ELSE in2]
    /\ analytic_c6 = [p \in Callers |-> Unset]
    /\ pc = [p \in Callers |-> "L74"]
    /\ b = [p \in Callers |-> Unset]
    /\ A_mat = [p \in Callers |-> Unset]
    /\ Y_vec = [p \in Callers |-> Unset]
    /\ q = [p \in Callers |-> Unset]
    /\ b6 = [p \in Callers |-> Unset]
    /\ c6_pred = [p \in Callers |-> Unset]
    /\ outcome = [p \in Callers |-> NoOutcome]
    /\ TARGETS_BASE = TargetsBaseTable
    /\ SCENARIOS = ScenariosTable
    /\ history = <<>>
    /\ NoAudit

SpecConc == InitConc /\ [][Next]_vars

\* ------------------------------------------------------------------------
\* Vocabulary of the properties
\* ------------------------------------------------------------------------
Done(p) == pc[p] = "done"
ReturnedNumber(p) == outcome[p].kind = "return" /\ ~IsNaN(outcome[p].value)
ReturnedNaN(p) == outcome[p].kind = "return" /\ IsNaN(outcome[p].value)

\* The Borel coefficient b_n = c_n / n! of a series c, n counted from 1.
Bn(c, n) == RDiv(c[n], FromInt(factorial(n)))

\* The determinant b3^2 - b2 b4 of the Pade system [[b3, b2], [b4, b3]].
Det(c) == RSub(RMul(Bn(c, 3), Bn(c, 3)), RMul(Bn(c, 2), Bn(c, 4)))
SingularSeries(c) == Len(c) >= 5 /\ IsZero(Det(c))
RegularSeries(c) == Len(c) >= 5 /\ ~IsZero(Det(c))

\* x1 * y1 + x2 * y2
Dot2(x1, y1, x2, y2) == RAdd(RMul(x1, y1), RMul(x2, y2))

\* ------------------------------------------------------------------------
\* C1
\* ------------------------------------------------------------------------
\* C1 (as claimed): a call whose input has an exactly singular Pade system
\* ends with a raised, typed IllConditionedSeries failure.  The code returns
\* NaN instead, so this predicate is violated.
C1_SingularRaisesTyped ==
    \A p \in Callers :
        Done(p) /\ SingularSeries(coeffs_list[p])
            => outcome[p].kind = "raise" /\ outcome[p].error = "IllConditionedSeries"

\* ------------------------------------------------------------------------
\* C2
\* ------------------------------------------------------------------------
\* C2: for every input of length 5 with a non-singular system, the call
\* solves for (q1, q2), and the pair satisfies b3 q1 + b2 q2 = -b4 and
\* b4 q1 + b3 q2 = -b5 with b_n = c_n / n!.
C2_DenominatorSolvesSystem ==
    \A p \in Callers :
        LET c == coeffs_list[p]
        IN  Done(p) /\ Len(c) = 5 /\ RegularSeries(c)
              => /\ q[p] # Unset
                 /\ Dot2(Bn(c, 3), q[p][1], Bn(c, 2), q[p][2]) = RNeg(Bn(c, 4))
                 /\ Dot2(Bn(c, 4), q[p][1], Bn(c, 3), q[p][2]) = RNeg(Bn(c, 5))

\* A finished call on 5 coefficients that solved a system needing the row
\* exchange (b3 = 0) with both unknowns nonzero.
C2_Witness ==
    \E p \in Callers :
        /\ Done(p) /\ Len(coeffs_list[p]) = 5 /\ RegularSeries(coeffs_list[p])
        /\ IsZero(Bn(coeffs_list[p], 3))
        /\ q[p] # Unset /\ ~IsZero(q[p][1]) /\ ~IsZero(q[p][2])

\* ------------------------------------------------------------------------
\* C3
\* ------------------------------------------------------------------------
\* C3: whenever the call has extrapolated b6, b6 + q1 b5 + q2 b4 = 0: the
\* triple (b4, b5, b6) obeys the recurrence the pair (q1, q2) was fitted to.
C3_ExtrapolationRecurrence ==
    \A p \in Callers :
        LET c == coeffs_list[p]
        IN  b6[p] # Unset
              => RAdd(b6[p], Dot2(q[p][1], Bn(c, 5), q[p][2], Bn(c, 4))) = Zero

\* A call has extrapolated a nonzero b6 from nonzero q1, q2 and b4 # b5.
C3_Witness ==
    \E p \in Callers :
        /\ b6[p] # Unset /\ ~IsZero(b6[p])
        /\ ~IsZero(q[p][1]) /\ ~IsZero(q[p][2])
        /\ Bn(coeffs_list[p], 4) # Bn(coeffs_list[p], 5)

\* ------------------------------------------------------------------------
\* C4
\* ------------------------------------------------------------------------
\* C4: once the loop of lines 75-77 is over, the list b holds one Borel
\* coefficient per input coefficient and b_n * n! = c_n with n counted from
\* 1, so the divisors are 1, 2, 6, 24, 120 for n = 1..5.
C4_BorelCoefficients ==
    \A p \in Callers :
        pc[p] \notin {"idle", "L74", "L75"}
          => /\ Len(b[p]) = Len(coeffs_list[p])
             /\ \A n \in 1..Len(b[p]) :
                    RMul(b[p][n], FromInt(factorial(n))) = coeffs_list[p][n]
             /\ \A n \in 1..Len(b[p]) :
                    n <= 5 => b[p][n] = RDiv(coeffs_list[p][n],
                                             FromInt(<<1, 2, 6, 24, 120>>[n]))

\* The loop is over on an input of five nonzero coefficients.
C4_Witness ==
    \E p \in Callers :
        /\ pc[p] = "L89" /\ Len(coeffs_list[p]) = 5
        /\ \A n \in 1..5 : ~IsZero(coeffs_list[p][n])
        /\ b[p][5] = RDiv(coeffs_list[p][5], FromInt(120))

\* ------------------------------------------------------------------------
\* C5
\* ------------------------------------------------------------------------
\* C5: a call that returns a number returns exactly 720 times the b6 it
\* extrapolated; the sign of b6 is kept.
C5_ReturnIs720TimesB6 ==
    \A p \in Callers :
        /\ Done(p) /\ RegularSeries(coeffs_list[p]) => ReturnedNumber(p)
        /\ Done(p) /\ ReturnedNumber(p)
             => /\ b6[p] # Unset
                /\ outcome[p].value = RMul(FromInt(720), b6[p])

\* A call extrapolated a negative b6 and returned a negative number.
C5_Witness ==
    \E p \in Callers :
        /\ Done(p) /\ ReturnedNumber(p)
        /\ b6[p] # Unset /\ b6[p][1] < 0
        /\ outcome[p].value[1] < 0

\* ------------------------------------------------------------------------
\* C6
\* ------------------------------------------------------------------------
\* C6: when the input is the series of a true [2/2] rational function (its
\* Borel coefficients obey one recurrence for k = 4, 5, 6) and the Pade
\* system is non-singular, the call returns the true c6 = 720 b6 of that
\* function.
C6_ExactOnRationalSeries ==
    \A p \in Callers :
        Done(p) /\ analytic_c6[p] # Unset /\ RegularSeries(coeffs_list[p])
            => outcome[p] = Returned(analytic_c6[p])

\* A call on a rational source series with a non-singular system returned
\* the nonzero true coefficient, having solved nonzero q1 and q2.
C6_Witness ==
    \E p \in Callers :
        /\ Done(p) /\ analytic_c6[p] # Unset /\ RegularSeries(coeffs_list[p])
        /\ ~IsZero(analytic_c6[p])
        /\ q[p] # Unset /\ ~IsZero(q[p][1]) /\ ~IsZero(q[p][2])
        /\ ReturnedNumber(p)

\* ------------------------------------------------------------------------
\* C7
\* ------------------------------------------------------------------------
\* Nonzero constants the series is scaled by.
ScaleFactors == {Rat(-1, 1), Rat(2, 1), Rat(1, 2), Rat(-3, 2)}

\* The series k * c.
Scaled(k, c) == [n \in 1..Len(c) |-> RMul(k, c[n])]

\* C7: for a non-singular input c and every scale factor k, the function
\* applied to k * c returns k times the number the call on c returned, and
\* solves the same (q1, q2).
C7_ScaleInvariance ==
    \A p \in Callers :
        Done(p) /\ RegularSeries(coeffs_list[p])
            => /\ ReturnedNumber(p)
               /\ \A k \in ScaleFactors :
                    LET r == pade_prediction(Scaled(k, coeffs_list[p]))
                    IN  /\ r.outcome = Returned(RMul(k, outcome[p].value))
                        /\ r.q = q[p]

\* A call on a non-singular input returned a nonzero number, so that the
\* scaled results differ from it.
C7_Witness ==
    \E p \in Callers :
        /\ Done(p) /\ RegularSeries(coeffs_list[p]) /\ ReturnedNumber(p)
        /\ ~IsZero(outcome[p].value)
        /\ \A k \in ScaleFactors :
             pade_prediction(Scaled(k, coeffs_list[p])).outcome
                # Returned(outcome[p].value)

\* ------------------------------------------------------------------------
\* C8
\* ------------------------------------------------------------------------
\* The positions from the linear solve of line 94 on.
SolveOrLater == {"L94", "L108", "L111", "L113", "L115"}

\* C8: a call on fewer than 5 coefficients never reaches the linear solve, and
\* it ends by raising an error out of the function (IndexError), which is not
\* the returned NaN of an ill-conditioned system; it has solved no (q1, q2).
C8_ShortInputFailsFast ==
    \A p \in Callers :
        Len(coeffs_list[p]) < 5
            => /\ pc[p] \notin SolveOrLater
               /\ q[p] = Unset
               /\ Done(p) => /\ outcome[p] = Raised("IndexError")
                             /\ outcome[p] # Returned(NaN)

\* A call on 4 coefficients built A_mat and then raised at line 91.
C8_Witness ==
    \E p \in Callers :
        /\ Done(p) /\ Len(coeffs_list[p]) = 4
        /\ A_mat[p] # Unset /\ Y_vec[p] = Unset
        /\ outcome[p].kind = "raise"

\* ------------------------------------------------------------------------
\* C9
\* ------------------------------------------------------------------------
\* A conditioning threshold a caller could choose; the function takes none.
Eps == Rat(1, 100)

\* C9 (as claimed): a call whose determinant is nonzero but smaller than the
\* threshold in absolute value does not return a number.  The code has no
\* conditioning check, so this predicate is violated.
C9_NearSingularRejected ==
    \A p \in Callers :
        /\ Done(p) /\ RegularSeries(coeffs_list[p])
        /\ RLess(RAbs(Det(coeffs_list[p])), Eps)
        => ~ReturnedNumber(p)

\* ------------------------------------------------------------------------
\* C10
\* ------------------------------------------------------------------------
\* C10 (as claimed): on N > 5 coefficients the call returns the estimate of
\* c_{N+1}: (N+1)! times the recurrence extended past the last coefficient,
\* -(q1 b_N + q2 b_{N-1}).  The code returns the estimate of c6 whatever N
\* is, so this predicate is violated.
C10_ReturnsNextAfterLast ==
    \A p \in Callers :
        LET c == coeffs_list[p]
            N == Len(c)
        IN  Done(p) /\ N > 5 /\ RegularSeries(c)
              => /\ ReturnedNumber(p)
                 /\ outcome[p].value =
                      RMul(FromInt(factorial(N + 1)),
                           RNeg(Dot2(q[p][1], Bn(c, N), q[p][2], Bn(c, N - 1))))

\* C10 (amended): on N > 5 coefficients with a non-singular system the call
\* returns the estimate of the sixth coefficient, 720 * -(q1 b5 + q2 b4),
\* with (q1, q2) fitted to b2..b5; it does not extend the recurrence past the
\* last given coefficient.
C10_LongInputReturnsSixth ==
    \A p \in Callers :
        LET c == coeffs_list[p]
        IN  Done(p) /\ Len(c) > 5 /\ RegularSeries(c)
              => /\ ReturnedNumber(p)
                 /\ outcome[p].value =
                      RMul(FromInt(720),
                           RNeg(Dot2(q[p][1], Bn(c, 5), q[p][2], Bn(c, 4))))

\* A call on 6 coefficients returned a nonzero number that is not the
\* estimate of the seventh coefficient.
C10_Witness ==
    \E p \in Callers :
        LET c == coeffs_list[p]
        IN  /\ Done(p) /\ Len(c) = 6 /\ RegularSeries(c) /\ ReturnedNumber(p)
            /\ ~IsZero(outcome[p].value)
            /\ outcome[p].value #
                 RMul(FromInt(factorial(7)),
                      RNeg(Dot2(q[p][1], Bn(c, 6), q[p][2], Bn(c, 5))))

\* ------------------------------------------------------------------------
\* C11
\* ------------------------------------------------------------------------
\* C11: a call has no side effects: no step of a call, whether the call goes
\* on to return a number, to return NaN or to raise, changes the caller's
\* coeffs_list or the module tables TARGETS_BASE and SCENARIOS.
C11_NoSideEffects ==
    [][/\ \A p \in Callers :
            pc[p] \notin {"idle", "done"} => coeffs_list'[p] = coeffs_list[p]
       /\ TARGETS_BASE' = TARGETS_BASE
       /\ SCENARIOS' = SCENARIOS]_vars

\* A call that transformed a nonzero fifth coefficient to a different value
\* has finished with a number, and the argument still holds what was passed.
C11_Witness ==
    \E p \in Callers :
        /\ Done(p) /\ ReturnedNumber(p)
        /\ Len(coeffs_list[p]) = 5
        /\ b[p][5] # coeffs_list[p][5]
        /\ TARGETS_BASE = TargetsBaseTable /\ SCENARIOS = ScenariosTable

\* ------------------------------------------------------------------------
\* C12
\* ------------------------------------------------------------------------
\* C12: the call is deterministic: two calls with equal arguments have the
\* same outcome (the same number, NaN both times, or the same exception),
\* whatever calls were made in between.
C12_Deterministic ==
    /\ \A i, j \in 1..Len(history) :
          history[i].input = history[j].input
              => history[i].outcome = history[j].outcome
    /\ \A p \in Callers : \A i \in 1..Len(history) :
          Done(p) /\ history[i].input = coeffs_list[p]
              => history[i].outcome = outcome[p]

\* A third call has finished with a nonzero number on the argument of the
\* first call, with a call on a different argument in between.
C12_Witness ==
    \E p \in Callers :
        /\ Done(p) /\ ReturnedNumber(p) /\ ~IsZero(outcome[p].value)
        /\ Len(history) = 2
        /\ history[1].input = coeffs_list[p]
        /\ history[2].input # coeffs_list[p]

\* ------------------------------------------------------------------------
\* C13
\* ------------------------------------------------------------------------
\* C13: with two callers whose steps interleave, each caller's call ends
\* with the outcome the same argument gives to a call that runs alone.
C13_ConcurrentCallsIndependent ==
    \A p \in Callers :
        Done(p) => outcome[p] = pade_prediction(coeffs_list[p]).outcome

\* Caller c2 has finished with a number while caller c1, on a different
\* argument, is in the middle of its own call with its list b half built.
C13_Witness ==
    /\ Done("c2") /\ ReturnedNumber("c2")
    /\ pc["c1"] = "L75" /\ Len(b["c1"]) = 2
    /\ coeffs_list["c1"] # coeffs_list["c2"]

\* ------------------------------------------------------------------------
\* C14
\* ------------------------------------------------------------------------
\* The Borel coefficients the claim states, to six decimals.
StatedBorel ==
    <<Dec(500000, 6), Dec(-164239, 6), Dec(196874, 6), Dec(-79677, 6), Dec(56667, 6)>>

\* |x - y| < 10^-k * n
Within(x, y, n, k) == RLess(RAbs(RSub(x, y)), Dec(n, k))

\* C14: on c = [0.5, -0.328478965, 1.181241456, -1.912245764, 6.8] every
\* Borel coefficient the call builds is within half a unit of the sixth
\* decimal of [0.5, -0.164239, 0.196874, -0.079677, 0.056667], the 2x2
\* system is non-singular, and the call returns a number (not NaN) whose
\* magnitude is within 1 of 20.27.
C14_ConcreteScenario ==
    \A p \in Callers :
        coeffs_list[p] = SignedSeries
          => /\ \A n \in 1..Len(b[p]) : Within(b[p][n], StatedBorel[n], 5, 7)
             /\ ~IsZero(Det(coeffs_list[p]))
             /\ Done(p) => /\ ReturnedNumber(p)
                           /\ Within(RAbs(outcome[p].value), Dec(2027, 2), 1, 0)

\* A call on the series has finished, with all five Borel coefficients
\* built and the system solved.
C14_Witness ==
    \E p \in Callers :
        /\ coeffs_list[p] = SignedSeries
        /\ Done(p) /\ Len(b[p]) = 5 /\ q[p] # Unset
        /\ outcome[p].kind = "return"

\* ------------------------------------------------------------------------
\* C15
\* ------------------------------------------------------------------------
\* The estimate in closed form (Cramer's rule on the 2x2 system):
\* 720 (2 b3 b4 b5 - b2 b5^2 - b4^3) / (b3^2 - b2 b4).
ClosedForm(c) ==
    LET b2 == Bn(c, 2)
        b3 == Bn(c, 3)
        b4 == Bn(c, 4)
        b5 == Bn(c, 5)
        num == RSub(RSub(RMul(FromInt(2), RMul(b3, RMul(b4, b5))),
                         RMul(b2, RMul(b5, b5))),
                    RMul(b4, RMul(b4, b4)))
    IN  RMul(FromInt(720), RDiv(num, Det(c)))

\* C15: the sign flip is the caller's: every row of the audit, as it is
\* appended, stores as "C6 (Pade)" the negation of the estimate for
\* [C1, C2, C3, C4, c5_val], the estimate being the un-negated 720 b6 of the
\* series.
C15_CallerNegates ==
    audit_pc = "A157" /\ audit_data # <<>>
      => LET row == audit_data[Len(audit_data)]
             c   == coeffs_absolute(TARGETS_BASE, row.C5_Input)
         IN  /\ row.C5_Input = SCENARIOS[Len(audit_data)][2]
             /\ REq(row.C6_Pade, RNeg(ClosedForm(c)))
             /\ REq(row.C6_Pade, RNeg(pade_prediction(c).outcome.value))

\* The audit has stored a row for each of the six scenarios, each with a
\* nonzero (negative) "C6 (Pade)".
C15_Witness ==
    /\ audit_pc = "A157"
    /\ Len(audit_data) = Len(ScenariosTable)
    /\ \A i \in 1..Len(audit_data) : RLess(audit_data[i].C6_Pade, Zero)

\* ------------------------------------------------------------------------
\* C20
\* ------------------------------------------------------------------------
\* x <= y
RLeq(x, y) == ~RLess(y, x)

\* C20: the mu of a fit with dark_mode=False lies in [0.72, 0.85] and the
\* mu of a fit with dark_mode=True lies in [1.01, 1.3]; hence every row of
\* the audit has "Mu (Sub)" < 1 < "Mu (Dark)".
C20_MuRanges ==
    /\ mu # Unset => RLeq(Rat(72, 100), mu) /\ RLeq(mu, Rat(85, 100))
    /\ mu_dark # Unset => RLeq(Rat(101, 100), mu_dark) /\ RLeq(mu_dark, Rat(13, 10))
    /\ \A i \in 1..Len(audit_data) :
          /\ RLess(audit_data[i].Mu_Sub, FromInt(1))
          /\ RLess(FromInt(1), audit_data[i].Mu_Dark)

\* The audit has stored a row whose two fits ended on the bounds nearest
\* to 1, and a row whose two fits ended on the bounds farthest from 1.
C20_Witness ==
    /\ \E i \in 1..Len(audit_data) :
          audit_data[i].Mu_Sub = Rat(85, 100) /\ audit_data[i].Mu_Dark = Rat(101, 100)
    /\ \E i \in 1..Len(audit_data) :
          audit_data[i].Mu_Sub = Rat(72, 100) /\ audit_data[i].Mu_Dark = Rat(13, 10)

\* ------------------------------------------------------------------------
\* C16
\* ------------------------------------------------------------------------
AllZero(a) == \A i \in 1..Len(a) : a[i] = Zero

\* C16: in both gauge-mass simulations the commutative residue
\* noise_x * noise_y - noise_y * noise_x is 0 at every index, so its
\* variance (boson_filter, boson_variance) and the photon's mass
\* (photon_mass_kg, photon_mass_gap) are 0, whatever the draws and whatever
\* the mass scale.
C16_PhotonMassZero ==
    /\ gauge.pc \in {"U48", "U51", "end"} => AllZero(gauge.vector_residue)
    /\ gauge.pc \in {"U51", "end"} => gauge.boson_filter = Zero
    /\ gauge.pc = "end" => gauge.photon_mass_kg = Zero
    /\ vacuum.pc \in {"V48", "end"} => AllZero(vacuum.vector_coupling)
    /\ vacuum.pc = "end" => vacuum.boson_variance = Zero /\ vacuum.photon_mass_gap = Zero

\* A run of the unified engine has ended with draws whose products are not
\* all 0 and differ from step to step, a mass scale other than 1 and an
\* electron mass that is not 0.
C16_Witness ==
    /\ gauge.pc = "end"
    /\ gauge.base_mass_kg # FromInt(1)
    /\ gauge.spin_residue[1] # gauge.spin_residue[2]
    /\ gauge.electron_mass_kg # Zero

\* ------------------------------------------------------------------------
\* C17
\* ------------------------------------------------------------------------
\* C17 (as claimed): the reported mass and G follow the integral: two runs
\* of run_teu_stochastic_integration whose base_impedance differs report
\* different emergent_electron_mass and different emergent_newton_G.  The
\* code computes both from constants alone, so this predicate is violated.
C17_ResultsFollowIntegral ==
    \A r1 \in Runs, r2 \in Runs :
        /\ vegas[r1].pc = "end" /\ vegas[r2].pc = "end"
        /\ ~SEq(vegas[r1].base_impedance, vegas[r2].base_impedance)
        => /\ ~SEq(vegas[r1].emergent_electron_mass, vegas[r2].emergent_electron_mass)
           /\ ~SEq(vegas[r1].emergent_newton_G, vegas[r2].emergent_newton_G)

\* ------------------------------------------------------------------------
\* C18
\* ------------------------------------------------------------------------
\* C18: two runs of stress_test_mercury that differ in nothing but G end
\* with the same Rs_teu and the same precession_TEU.
C18_IndependentOfG ==
    \A r1 \in Runs, r2 \in Runs :
        /\ mercury[r1].pc = "end" /\ mercury[r2].pc = "end"
        /\ SEq(mercury[r1].M_sun, mercury[r2].M_sun)
        => /\ SEq(mercury[r1].Rs_teu, mercury[r2].Rs_teu)
           /\ SEq(mercury[r1].precession_TEU, mercury[r2].precession_TEU)

\* Two runs with different G and the same M_sun have ended, with different
\* classical radii.
C18_Witness ==
    /\ mercury["r1"].pc = "end" /\ mercury["r2"].pc = "end"
    /\ ~SEq(mercury["r1"].G, mercury["r2"].G)
    /\ SEq(mercury["r1"].M_sun, mercury["r2"].M_sun)
    /\ ~SEq(mercury["r1"].Rs_classical, mercury["r2"].Rs_classical)

\* ------------------------------------------------------------------------
\* C19
\* ------------------------------------------------------------------------
\* C19 (as claimed): two runs of stress_test_mercury that differ in nothing
\* but M_sun end with the same Rs_teu and the same precession_TEU.  The code
\* takes N_sun = M_sun / m_e (line 37), so this predicate is violated.
C19_IndependentOfMSun ==
    \A r1 \in Runs, r2 \in Runs :
        /\ mercury[r1].pc = "end" /\ mercury[r2].pc = "end"
        /\ SEq(mercury[r1].G, mercury[r2].G)
        => /\ SEq(mercury[r1].Rs_teu, mercury[r2].Rs_teu)
           /\ SEq(mercury[r1].precession_TEU, mercury[r2].precession_TEU)

\* ------------------------------------------------------------------------
\* C21
\* ------------------------------------------------------------------------
\* C21: when the 2x2 solve fails on a singular matrix, pade_prediction raises
\* nothing and returns NaN, and the audit goes on unchecked: it never ends
\* on an exception, every scenario taken gets its row, and the row of a
\* scenario whose system is singular holds NaN as "C6 (Pade)" and as
\* "Divergence".
C21_NaNStoredUnchecked ==
    /\ audit_pc # "raised"
    /\ audit_pc = "A157" => Len(audit_data) = scen
    /\ \A i \in 1..Len(audit_data) :
          LET row == audit_data[i]
              c   == coeffs_absolute(TARGETS_BASE, row.C5_Input)
          IN  SingularSeries(c)
                => /\ pade_prediction(c).outcome = Returned(NaN)
                   /\ IsNaN(row.C6_Pade)
                   /\ IsNaN(row.Divergence)

\* The audit of a table with a singular system has run to the end of its
\* loop, with NaN in both columns of its last row.
C21_Witness ==
    /\ audit_pc = "A239"
    /\ audit_data # <<>>
    /\ SingularSeries(coeffs_absolute(TARGETS_BASE, audit_data[Len(audit_data)].C5_Input))
    /\ IsNaN(audit_data[Len(audit_data)].C6_Pade)
    /\ IsNaN(audit_data[Len(audit_data)].Divergence)

\* ------------------------------------------------------------------------
\* C22
\* ------------------------------------------------------------------------
\* The numerator of the comment of lines 97-100: p0 = b1, p1 = b2 + b1 q1,
\* p2 = b3 + b2 q1 + b1 q2, as <<p0, p1, p2>>.
Numerator(c, qq) ==
    << Bn(c, 1),
       RAdd(Bn(c, 2), RMul(Bn(c, 1), qq[1])),
       RAdd(Bn(c, 3), RAdd(RMul(Bn(c, 2), qq[1]), RMul(Bn(c, 1), qq[2]))) >>

\* The coefficient of t^k in the Taylor expansion of P(t)/Q(t) at 0, with
\* P = pp[1] + pp[2] t + pp[3] t^2 and Q = 1 + qq[1] t + qq[2] t^2: from
\* (P/Q) Q = P, d_k = p_k - q1 d_{k-1} - q2 d_{k-2}.
RECURSIVE Taylor(_, _, _)
Taylor(pp, qq, k) ==
    IF k < 0 THEN Zero
    ELSE RSub(IF k <= 2 THEN pp[k + 1] ELSE Zero,
              RAdd(RMul(qq[1], Taylor(pp, qq, k - 1)),
                   RMul(qq[2], Taylor(pp, qq, k - 2))))

\* C22: for every non-singular input, with (q1, q2) the pair the call solved
\* for and P the numerator built from it, the first five Taylor coefficients
\* of P/Q are b1, b2, b3, b4, b5.
C22_PadeMatching ==
    \A p \in Callers :
        LET c == coeffs_list[p]
        IN  Done(p) /\ RegularSeries(c)
              => /\ q[p] # Unset
                 /\ \A k \in 0..4 : Taylor(Numerator(c, q[p]), q[p], k) = Bn(c, k + 1)

\* A finished call on a non-singular input with b1, b4, b5 and both
\* denominator coefficients nonzero.
C22_Witness ==
    \E p \in Callers :
        LET c == coeffs_list[p]
        IN  /\ Done(p) /\ RegularSeries(c)
            /\ q[p] # Unset /\ ~IsZero(q[p][1]) /\ ~IsZero(q[p][2])
            /\ ~IsZero(c[1]) /\ ~IsZero(c[4]) /\ ~IsZero(c[5])

\* ------------------------------------------------------------------------
\* C23
\* ------------------------------------------------------------------------
\* The sign the scenario path attaches to teu_model(n, ...) in the row it
\* appended last: in the objective of its fit for n = 1..5, in c6_teu and in
\* c7_teu.
ScenarioSign(n) ==
    IF n <= 5 THEN scenario_preds(mu)[n].sign
    ELSE IF n = 6 THEN audit_data[Len(audit_data)].C6_TEU.sign
    ELSE c7_teu.sign

\* The sign the hero path attaches to teu_model(n, ...): in the objective of
\* its fit for n = 1..4, in c5_hero, c6_hero and c7_hero.
HeroSign(n) ==
    IF n <= 4 THEN hero_preds(mu_h)[n].sign
    ELSE IF n = 5 THEN c5_hero.sign
    ELSE IF n = 6 THEN c6_hero.sign
    ELSE c7_hero.sign

\* Both paths have attached their signs: every scenario has its row and the
\* hero predictions are computed.
BothPathsDone == audit_pc = "A247" /\ audit_data # <<>>

\* C23 (as claimed): once both paths have run there is an order n for which
\* the scenario path and the hero path attach different signs to
\* teu_model(n, ...).  The code attaches +, +, +, +, +, -, + for n = 1..7 on
\* both paths, so this predicate is violated.
C23_SignsDiffer ==
    BothPathsDone => \E n \in 1..7 : ScenarioSign(n) # HeroSign(n)

\* C23 (amended): the two paths attach the same sign to teu_model(n, ...)
\* for every order n = 1..7: + for every order but 6, - for 6, in every row
\* of the audit and in the hero predictions.
C23_SignsAgree ==
    BothPathsDone
      => /\ \A n \in 1..7 : ScenarioSign(n) = HeroSign(n)
         /\ \A n \in 1..7 : HeroSign(n) = IF n = 6 THEN -1 ELSE 1
         /\ \A i \in 1..Len(audit_data) : audit_data[i].C6_TEU.sign = -1

\* Both paths have run, on the six scenarios of the script, and their
\* terms of order 6 are evaluated at different fits.
C23_Witness ==
    /\ BothPathsDone
    /\ Len(audit_data) = Len(ScenariosTable)
    /\ c6_hero.n = 6 /\ c6_teu.n = 6
    /\ c6_hero.fit # c6_teu.fit

\* ------------------------------------------------------------------------
\* C24
\* ------------------------------------------------------------------------
\* C24: a call returns NaN exactly when its input has at least 5
\* coefficients and b3^2 = b2 b4; on every other input of at least 5
\* coefficients it returns the number
\* 720 (2 b3 b4 b5 - b2 b5^2 - b4^3) / (b3^2 - b2 b4).
C24_NaNIffZeroDeterminant ==
    \A p \in Callers :
        LET c == coeffs_list[p]
        IN  Done(p)
              => /\ ReturnedNaN(p) <=> SingularSeries(c)
                 /\ RegularSeries(c)
                      => /\ ReturnedNumber(p)
                         /\ REq(outcome[p].value, ClosedForm(c))

\* A call has returned NaN on a series whose c2, c3, c4 are nonzero and
\* whose determinant is zero.
C24_Witness ==
    \E p \in Callers :
        LET c == coeffs_list[p]
        IN  /\ Done(p) /\ Len(c) >= 5 /\ ReturnedNaN(p)
            /\ ~IsZero(c[2]) /\ ~IsZero(c[3]) /\ ~IsZero(c[4])
            /\ RMul(Bn(c, 3), Bn(c, 3)) = RMul(Bn(c, 2), Bn(c, 4))

\* ------------------------------------------------------------------------
\* C25
\* ------------------------------------------------------------------------
\* The values a first coefficient is replaced by.
FirstVals == CoefVals \cup {Rat(1, 2), FromInt(7)}

\* C25: the outcome of a call does not depend on the first coefficient: the
\* call on the series with c1 replaced by any other value has the same
\* outcome (the same number, NaN both times, or the same exception).
C25_IndependentOfC1 ==
    \A p \in Callers :
        LET c == coeffs_list[p]
        IN  Done(p) /\ Len(c) >= 1
              => \A v \in FirstVals :
                    pade_prediction([c EXCEPT ![1] = v]).outcome = outcome[p]

\* A call with a nonzero c1 has returned a nonzero number, and the call on
\* the series with c1 = 7 returns a number too.
C25_Witness ==
    \E p \in Callers :
        LET c == coeffs_list[p]
        IN  /\ Done(p) /\ ReturnedNumber(p) /\ ~IsZero(outcome[p].value)
            /\ ~IsZero(c[1])
            /\ ~IsNaN(pade_prediction([c EXCEPT ![1] = FromInt(7)]).outcome.value)

\* ------------------------------------------------------------------------
\* C26
\* ------------------------------------------------------------------------
\* C26: for a non-singular input, the call on the series with the signs of
\* c2 and c4 flipped returns the negation of the call's result; so the
\* negation of the result on a series equals the result on its
\* alternating-sign series.
C26_SignSymmetry ==
    \A p \in Callers :
        LET c == coeffs_list[p]
            s == pade_prediction(signed_series(c)).outcome
        IN  Done(p) /\ RegularSeries(c)
              => /\ ReturnedNumber(p)
                 /\ s.kind = "return" /\ ~IsNaN(s.value)
                 /\ REq(s.value, RNeg(outcome[p].value))

\* A call on a series with nonzero c2 and c4 has returned a nonzero number,
\* a positive one, so that the result on the flipped series is negative.
C26_Witness ==
    \E p \in Callers :
        LET c == coeffs_list[p]
        IN  /\ Done(p) /\ RegularSeries(c) /\ ReturnedNumber(p)
            /\ ~IsZero(c[2]) /\ ~IsZero(c[4])
            /\ outcome[p].value[1] > 0
            /\ pade_prediction(signed_series(c)).outcome.value[1] < 0

\* ------------------------------------------------------------------------
\* C27
\* ------------------------------------------------------------------------
\* What may follow the first five coefficients of an argument.
Tails == {<<>>, <<FromInt(7)>>, <<Rat(1, 2), FromInt(-3)>>}

\* C27: a call on at least 5 coefficients ignores every coefficient after
\* the fifth: its outcome is the outcome on the first five alone and on the
\* first five followed by anything else; and the number it returns is its
\* b6 times 6! = 720 whatever the length.
C27_IgnoresAfterFifth ==
    \A p \in Callers :
        LET c == coeffs_list[p]
        IN  Done(p) /\ Len(c) >= 5
              => /\ \A t \in Tails :
                       pade_prediction(SubSeq(c, 1, 5) \o t).outcome = outcome[p]
                 /\ ReturnedNumber(p)
                      => outcome[p].value = RMul(b6[p], FromInt(720))

\* A call on six coefficients, the sixth nonzero, has returned a nonzero
\* number.
C27_Witness ==
    \E p \in Callers :
        LET c == coeffs_list[p]
        IN  /\ Done(p) /\ Len(c) = 6 /\ ~IsZero(c[6])
            /\ ReturnedNumber(p) /\ ~IsZero(outcome[p].value)

====
